---- MODULE Spec2Model ----
(***************************************************************************)
(* PowerTrader_AI trader (src/pt_trader.py): the per-tick position engine  *)
(* of CryptoAPITrading (manual command, settings reload, snapshot, the     *)
(* trailing-exit and DCA evaluation of every holding, the entry loop, the  *)
(* end-of-tick recomputation) and the accounting ledger (_record_trade     *)
(* behind place_buy_order / place_sell_order).                             *)
(*                                                                         *)
(* Numbers.  Floats are fixed point.  Prices and cost bases are integers   *)
(* (price units); a trailing line is kept times LineScale so that          *)
(* cost_basis * (1 + pct/100) and peak * (1 - gap/100) are exact.          *)
(* Percentages are whole percents.  Time is counted in units of which the  *)
(* rolling DCA window (dca_window_seconds) spans DcaWindow; the cooldown   *)
(* setting is expressed in the same unit.                                  *)
(*                                                                         *)
(* The ledger is written by place_buy_order / place_sell_order and read by *)
(* no trading decision; it is explored under its own specification,        *)
(* SpecLedger.  Ledger money is counted in units of 1e-6 USD and ledger    *)
(* quantity in units of 1e-12, the dust thresholds (DustCost, DustQty);    *)
(* a cent is SettleEps units, and a ledger price p stands for p units of   *)
(* money per PriceScale units of quantity.                                 *)
(***************************************************************************)
EXTENDS Integers, Sequences, FiniteSets, TLC

(***************************************************************************)
(* Bounds of the model.                                                    *)
(***************************************************************************)
MaxOrders == 5
MaxTime == 4
MaxFaults == 1
MaxCommands == 2
MaxEdits == 1
MaxRestarts == 1
MaxLedgerOps == 3
MaxVersion == 3
MaxCrashes == 2
DocChunks == 2
MaxClock == 5
MaxNoted == 3
MaxFills == 3
MaxHeld == 4
MaxPriceFaults == 1
MaxTicks == 3
MaxPolls == 4
MaxStage == 5
MaxSetting == 8

(***************************************************************************)
(* Program constants.                                                      *)
(***************************************************************************)
LineScale == 100
DcaWindow == 2
NeuralStages == 4
NeuralOffset == 4
DustQty == 1
DustCost == 1
SettleEps == 10000
PriceScale == 2
LogEvery == 120

Symbols == {"BTC", "ETH"}

Min(a, b) == IF a <= b THEN a ELSE b
Max(a, b) == IF a >= b THEN a ELSE b

RECURSIVE MaxSeq(_)
MaxSeq(q) == IF q = <<>> THEN 0 ELSE Max(Head(q), MaxSeq(Tail(q)))

Reverse(q) == [i \in 1..Len(q) |-> q[Len(q) + 1 - i]]

(***************************************************************************)
(* Settings.  The trailing settings are hot-reloaded; the DCA settings     *)
(* stay as loaded.                                                         *)
(***************************************************************************)
TRADE_START_LEVEL == 3
DCA_MULTIPLIER == 2
DCA_LEVELS == <<-10, -20>>
DefaultTrailConfig ==
    [trailing_gap_pct |-> 5, pm_start_pct_no_dca |-> 10, pm_start_pct_with_dca |-> 5]
EditedTrailConfig ==
    [trailing_gap_pct |-> 10, pm_start_pct_no_dca |-> 10, pm_start_pct_with_dca |-> 5]
TrailConfigs == {DefaultTrailConfig, EditedTrailConfig}
MAX_DCA_BUYS_PER_24H == 1

(***************************************************************************)
(* Inputs of the environment, per symbol: bid/ask quotes, signal levels,   *)
(* the size the exchange fills, the USD balance.                           *)
(***************************************************************************)
Quotes(s) ==
    IF s = "BTC"
    THEN { <<900, 900>>, <<1000, 1000>>, <<1200, 1200>> }
    ELSE { <<900, 900>>, <<1000, 1000>> }
LongLevels == {0, 3, 6}
ShortLevels == {0, 1}
NoQuote == <<0, 0>>
FillQtys(s) == {1}
BuyingPowers == {0, 10000}

\* The deployments explored: the coins traded, the cooldown setting, and how much the
\* operator and the exchange API interfere (manual commands, settings edits, failed
\* API calls, restarts).
Environments ==
    { [coins |-> <<"BTC">>, cooldown |-> 0, commands |-> 0, edits |-> MaxEdits,
       faults |-> MaxFaults, restarts |-> MaxRestarts, price_faults |-> 0],
      [coins |-> <<"BTC">>, cooldown |-> 4, commands |-> 0, edits |-> 0,
       faults |-> MaxFaults, restarts |-> MaxRestarts, price_faults |-> 0],
      [coins |-> <<"BTC">>, cooldown |-> 0, commands |-> MaxCommands, edits |-> 0,
       faults |-> MaxFaults, restarts |-> 0, price_faults |-> 0],
      [coins |-> <<"BTC", "ETH">>, cooldown |-> 0, commands |-> 0, edits |-> 0,
       faults |-> MaxFaults, restarts |-> 0, price_faults |-> 0],
      [coins |-> <<"BTC">>, cooldown |-> 0, commands |-> 0, edits |-> 0,
       faults |-> MaxFaults, restarts |-> 0, price_faults |-> MaxPriceFaults] }

\* the account when the process is started: no history, an open trade, an open trade
\* with one DCA buy
Histories ==
    { <<>>,
      << [sym |-> "BTC", side |-> "buy", tag |-> "NONE", qty |-> 1, price |-> 1000, ts |-> 1] >>,
      << [sym |-> "BTC", side |-> "buy", tag |-> "NONE", qty |-> 1, price |-> 1000, ts |-> 1],
         [sym |-> "BTC", side |-> "buy", tag |-> "DCA", qty |-> 2, price |-> 900, ts |-> 1] >> }
TimeSteps == {1}

VARIABLES
    orders,                 \* filled orders of the account, oldest first (exchange; trade log)
    holdQty,                \* quantity held per symbol (exchange)
    cost_basis,             \* self.cost_basis; 0 when the symbol has no entry
    dca_levels_triggered,   \* len(self.dca_levels_triggered[sym])
    trailing_pm,            \* self.trailing_pm[sym]
    dca_buy_ts,             \* self._dca_buy_ts[sym]
    dca_last_sell_ts,       \* self._dca_last_sell_ts[sym]; 0 when absent
    cfg,                    \* trailing settings in force
    last_sig,               \* self._last_trailing_settings_sig
    max_dca_buys_per_24h,
    dca_cooldown_minutes,
    now,                    \* time.time()
    pc, idx, snap,          \* position in manage_trades and its locals
    obs,                    \* locals of the last evaluation of each symbol in this tick
    evalAbove,              \* bid >= line at the end of the symbol's last evaluation
    prevTick,               \* bid vs line at the end of the previous tick
    prevFired,              \* the previous tick attempted an exit sell that was not accepted
    faults,                 \* API calls that failed so far
    commands,               \* manual commands and settings edits so far
    restarts,               \* restarts of the process so far
    edits,                  \* settings edits so far
    env,                    \* the deployment
    pnl_ledger,             \* self._pnl_ledger
    ledgerOp,               \* the last call of _record_trade: arguments and the state before
    ledgerOps,              \* number of ledger operations so far
    audit,                  \* the total the ledger was loaded with; the realized profit of
                            \* the sell records appended to the trade history since
    fs,                     \* the files of the hub directory: name -> contents
    wr,                     \* _atomic_write_json in progress: where it stands
    mem,                    \* version of the state held in memory, per path
    seen,                   \* what the last read of each path returned
    crashes,                \* crashes of the process so far
    noted,                  \* rate tracker: buys noted since the last reset, per symbol
    counted,                \* rate tracker: what the last _dca_window_count returned
    reset_call,             \* rate tracker: the arguments of the _reset_dca_window_for_trade
                            \* call just made
    cb_in,                  \* calculate_cost_basis: what the exchange answers for one asset
    cb_out,                 \* calculate_cost_basis: the entry it returns for that asset
    run,                    \* run: where the outer loop stands
    entered,                \* the signal levels read for the latest entry buy of the tick
    last_good_bid_ask,      \* self._last_good_bid_ask[sym]; NoQuote when absent
    acct,                   \* the account value: the stored snapshot, what the tick wrote
    trig,                   \* the DCA trigger of one holding: its inputs and what it decided
    gui,                    \* one tunable through a settings reload: what the file says,
                            \* what was in force, what is in force after it
    funds,                  \* the DCA buys of one tick against the account's buying power
    cmd                     \* the manual command file; how often each command written
                            \* has had its order placed

engineVars ==
    << orders, holdQty, cost_basis, dca_levels_triggered, trailing_pm, dca_buy_ts,
       dca_last_sell_ts, cfg, last_sig, max_dca_buys_per_24h, dca_cooldown_minutes,
       now, pc, idx, snap, obs, evalAbove, prevTick, prevFired, faults, commands, restarts,
       edits, env >>
ledgerVars == << pnl_ledger, ledgerOp, ledgerOps, audit >>
fileVars == << fs, wr, mem, seen, crashes >>
trackVars == << noted, counted, reset_call >>
costVars == << cb_in, cb_out >>
runVars == << run >>
entryVars == << entered >>
priceVars == << last_good_bid_ask >>
acctVars == << acct >>
unitVars == << trig, gui, funds, cmd >>
vars ==
    << engineVars, ledgerVars, fileVars, trackVars, costVars, runVars, entryVars,
       priceVars, acctVars, unitVars >>

(***************************************************************************)
(* The exchange's order list and the quantities derived from it.           *)
(***************************************************************************)
OrdersOf(ords, s) == SelectSeq(ords, LAMBDA o : o.sym = s)
Order(s, side, tag, qty, price) ==
    [sym |-> s, side |-> side, tag |-> tag, qty |-> qty, price |-> price, ts |-> now]

\* what the exchange holds after a list of orders (a sell sells the whole holding)
RECURSIVE PositionQty(_)
PositionQty(ords) ==
    IF ords = <<>> THEN 0
    ELSE LET o == ords[Len(ords)]
         IN  IF o.side = "sell" THEN 0 ELSE o.qty + PositionQty(SubSeq(ords, 1, Len(ords) - 1))

RECURSIVE LifoCost(_, _)
LifoCost(buys, remaining) ==
    IF buys = <<>> \/ remaining <= 0
    THEN [cost |-> 0, rem |-> remaining]
    ELSE LET o == Head(buys)
             used == IF o.qty > remaining THEN remaining ELSE o.qty
             rest == LifoCost(Tail(buys), remaining - used)
         IN  [cost |-> used * o.price + rest.cost, rem |-> rest.rem]

\* calculate_cost_basis, one asset: newest buys first until the held quantity is covered,
\* an unaccounted remainder valued at the fallback (ask) price.
AssetCostBasis(ords, qty, fallback_price) ==
    LET buy_orders == Reverse(SelectSeq(ords, LAMBDA o : o.side = "buy"))
        r == LifoCost(buy_orders, qty)
        total_cost == r.cost + (IF r.rem > 0 /\ fallback_price > 0
                                THEN r.rem * fallback_price ELSE 0)
    IN  IF qty > 0 THEN total_cost \div qty ELSE 0

\* calculate_cost_basis: the entries of the held symbols whose order lookup answered.
\* okSyms: the symbols for which get_orders answered ({} also stands for a failed
\* get_bot_holdings, which returns the empty result).
CalculateCostBasis(ords, hold, okSyms, fallback) ==
    [s \in Symbols |->
        IF hold[s] > 0 /\ s \in okSyms
        THEN AssetCostBasis(OrdersOf(ords, s), hold[s], fallback[s])
        ELSE 0]

\* "if new_cost_basis: self.cost_basis = new_cost_basis": an empty result keeps the old one
AdoptCostBasis(old, ords, hold, okSyms, fallback) ==
    IF \E s \in Symbols : hold[s] > 0 /\ s \in okSyms
    THEN CalculateCostBasis(ords, hold, okSyms, fallback)
    ELSE old

LastSellIndex(ords) ==
    LET S == {i \in 1..Len(ords) : ords[i].side = "sell"}
    IN  IF S = {} THEN 0 ELSE CHOOSE i \in S : \A j \in S : j <= i

\* initialize_dca_levels, one symbol: the filled buys after the first buy that follows
\* the most recent sell (the place in the list stands for created_at, which orders
\* the fills of one time unit).
StageFromHistory(ords) ==
    LET k == LastSellIndex(ords)
        relevant == {i \in 1..Len(ords) : i > k /\ ords[i].side = "buy"}
    IN  IF relevant = {} THEN 0 ELSE Cardinality(relevant) - 1

\* initialize_dca_levels: held symbols whose order lookup answered get the stage of
\* their history; every other symbol keeps what it had.
InitializeDcaLevels(stages, ords, hold, okSyms) ==
    [s \in Symbols |->
        IF hold[s] > 0 /\ s \in okSyms /\ OrdersOf(ords, s) # <<>>
        THEN StageFromHistory(OrdersOf(ords, s))
        ELSE stages[s]]

\* the fallback price is consulted only for a holding the history does not cover
NoFallback == [s \in Symbols |-> 0]

(***************************************************************************)
(* Rate / cooldown tracker.                                                *)
(***************************************************************************)
\* _dca_window_count: the pruned list (its length is the count).
DcaWindowPrune(ts_list, last_sell, t) ==
    SelectSeq(ts_list, LAMBDA x : x > last_sell /\ x >= t - DcaWindow)

\* _note_dca_buy
NoteDcaBuyAssign(ts_list, last_sell, t) == << t >>
NoteDcaBuy(ts_list, last_sell, t) == DcaWindowPrune(Append(ts_list, t), last_sell, t)

\* the cooldown test of manage_trades, on the pruned list
CooldownOk(ts_list, t) ==
    ~(dca_cooldown_minutes > 0 /\ ts_list # <<>> /\ t - MaxSeq(ts_list) < dca_cooldown_minutes)

(***************************************************************************)
(* Trailing profit margin, one holding, one tick.                          *)
(***************************************************************************)
NoTrail ==
    [exists |-> FALSE, active |-> FALSE, line |-> 0, peak |-> 0, was_above |-> FALSE,
     settings_sig |-> <<0, 0, 0>>]

SettingsSig(c) == <<c.trailing_gap_pct, c.pm_start_pct_no_dca, c.pm_start_pct_with_dca>>

PmStartPct(c, stage) ==
    IF stage = 0 THEN c.pm_start_pct_no_dca ELSE c.pm_start_pct_with_dca

\* base_pm_line = avg_cost_basis * (1 + pm_start_pct / 100), times LineScale
BasePmLine(c, cb, stage) == (cb * LineScale * (100 + PmStartPct(c, stage))) \div 100

\* the state fetched or rebuilt, the line of a fetched one left where it was
TrailRebaseStale(st, c, base) ==
    IF ~st.exists \/ st.settings_sig # SettingsSig(c)
    THEN [exists |-> TRUE, active |-> FALSE, line |-> base, peak |-> 0,
          was_above |-> FALSE, settings_sig |-> SettingsSig(c)]
    ELSE st

\* the state fetched or rebuilt, with the line re-based
TrailRebase(st, c, base) ==
    IF ~st.exists \/ st.settings_sig # SettingsSig(c)
    THEN [exists |-> TRUE, active |-> FALSE, line |-> base, peak |-> 0,
          was_above |-> FALSE, settings_sig |-> SettingsSig(c)]
    ELSE IF ~st.active THEN [st EXCEPT !.line = base]
    ELSE IF st.line < base THEN [st EXCEPT !.line = base]
    ELSE st

AboveNow(st, bid) == bid * LineScale >= st.line

TrailActivate(st, bid) ==
    IF ~st.active /\ AboveNow(st, bid)
    THEN [st EXCEPT !.active = TRUE, !.peak = bid]
    ELSE st

\* a ratchet that takes the new line as it comes, higher or lower
TrailRatchetAssign(st, c, base, bid) ==
    IF st.active
    THEN LET pk == IF bid > st.peak THEN bid ELSE st.peak
             new_line0 == (pk * LineScale * (100 - c.trailing_gap_pct)) \div 100
             new_line == IF new_line0 < base THEN base ELSE new_line0
         IN  [st EXCEPT !.peak = pk, !.line = new_line]
    ELSE st

\* a ratchet that follows the peak but leaves the line where it is
TrailRatchetKeepLine(st, c, base, bid) ==
    IF st.active
    THEN [st EXCEPT !.peak = IF bid > st.peak THEN bid ELSE st.peak]
    ELSE st

\* peak and line of an active state
TrailRatchet(st, c, base, bid) ==
    IF st.active
    THEN LET pk == IF bid > st.peak THEN bid ELSE st.peak
             new_line0 == (pk * LineScale * (100 - c.trailing_gap_pct)) \div 100
             new_line == IF new_line0 < base THEN base ELSE new_line0
         IN  [st EXCEPT !.peak = pk,
                        !.line = IF new_line > st.line THEN new_line ELSE st.line]
    ELSE st

\* a forced sell whenever an active state has the bid below the line
ExitFiresNoMemory(st, bid) == st.active /\ bid * LineScale < st.line
\* forced sell on a cross from above to below the line
ExitFires(st, bid) == st.active /\ st.was_above /\ bid * LineScale < st.line

\* the flag saved for the next tick
SaveWasAbove(st, above_now) == [st EXCEPT !.was_above = above_now]

(***************************************************************************)
(* DCA triggers.                                                           *)
(***************************************************************************)
\* a threshold that is always the first of the list
HardLevelFirst(levels, stage) == levels[1]
\* "self.dca_levels[current_stage] if current_stage < len(self.dca_levels) else
\* self.dca_levels[-1]"
HardLevelOf(levels, stage) ==
    IF stage < Len(levels) THEN levels[stage + 1] ELSE levels[Len(levels)]

HardLevel(stage) == HardLevelOf(DCA_LEVELS, stage)

\* gain_loss_percentage_buy <= hard_level
HardHitAt(ask, cb, hard_level) == (ask - cb) * 100 <= hard_level * cb

HardHit(ask, cb, stage) == HardHitAt(ask, cb, HardLevel(stage))

\* the status line: the neural level shown as the next DCA trigger (0: none shown)
NeuralDcaMax(sl) == Max(0, 7 - sl)
NeuralNext(sl, next_stage) ==
    IF next_stage < NeuralDcaMax(sl) THEN sl + 1 + next_stage ELSE 0

NeuralHit(ask, cb, stage, long) ==
    stage < NeuralStages /\ ask < cb /\ long >= stage + NeuralOffset

\* long_dca_signal is read only for the stages with a neural trigger
LongInputs(stage) == IF stage < NeuralStages THEN LongLevels ELSE {0}

(***************************************************************************)
(* manage_trades, step by step.                                            *)
(***************************************************************************)
SnapIdle ==
    [holdings |-> <<>>, qty |-> [s \in Symbols |-> 0], buying_power |-> 0,
     trading_pairs |-> TRUE, trades_made |-> FALSE, holdings_ok |-> TRUE,
     quotes |-> [s \in Symbols |-> NoQuote], price_ok |-> TRUE, discarded |-> {}]

ObsIdle ==
    [seen |-> FALSE, evald |-> FALSE, fresh |-> FALSE, fired |-> FALSE, sold |-> FALSE,
     bid |-> 0, line |-> 0, prev_above |-> FALSE, dca |-> "none", stage0 |-> 0,
     manual |-> FALSE]

crypto_symbols == env.coins
Coins == {crypto_symbols[i] : i \in 1..Len(crypto_symbols)}

\* a payload that lists every held asset twice
HeldSeqTwice(hold) ==
    SelectSeq(<<"BTC", "ETH", "BTC", "ETH">>, LAMBDA s : hold[s] > 0)
\* the holdings payload lists the held assets in a fixed order
HeldSeq(hold) == SelectSeq(<<"BTC", "ETH">>, LAMBDA s : hold[s] > 0)
HeldSet(hold) == {s \in Symbols : hold[s] > 0}

\* bid against the line each symbol is left with when the tick ends
TickRelation(tp, o) ==
    [s \in Symbols |->
        IF tp[s].exists /\ o[s].seen
        THEN (IF o[s].bid * LineScale >= tp[s].line THEN "above" ELSE "below")
        ELSE "none"]

\* the tick is over (normally, by the early return, or by an exception caught in run)
EndTick(tp, o) ==
    /\ pc' = "poll"
    /\ idx' = 0
    /\ snap' = SnapIdle
    /\ prevTick' = TickRelation(tp, o)
    /\ prevFired' = [s \in Symbols |-> o[s].fired /\ ~o[s].sold]
    /\ obs' = [s \in Symbols |-> ObsIdle]
    /\ \E dt \in TimeSteps : now + dt <= MaxTime /\ now' = now + dt

\* the ledger: no open position; no trade recorded yet
\* the two files written through _atomic_write_json, and their temporaries
Paths == {"pnl_ledger.json", "trader_status.json"}
Files == Paths \cup {"pnl_ledger.json.tmp", "trader_status.json.tmp"}
Absent == [present |-> FALSE, data |-> << >>]
NoWrite == [pc |-> "idle", path |-> "pnl_ledger.json", data |-> 0, before |-> Absent]

\* None and "nothing written" are -1
NoAccount ==
    [last_good |-> -1, written |-> -1, snapshot_ok |-> TRUE, total |-> 0,
     recent_complete |-> -1, recent_positive |-> -1, ticks |-> 0, restarts |-> 0]

NoEntry == [sym |-> "none", buy_count |-> 0, sell_count |-> 0]

NoCostInput == [fills |-> << >>, quantity |-> 0, price |-> 0, lookup |-> "ok"]
NoCostOutput == [done |-> FALSE, present |-> FALSE, value |-> 0]
RunStart == [pc |-> "top", loop_count |-> 0, last |-> "none"]

NoReset == [sym |-> "none", sold |-> FALSE, t |-> 0]

NoCount == [s \in Symbols |-> -1]

NoPosition == [open |-> FALSE, usd_cost |-> 0, qty |-> 0]

NoTrade ==
    [side |-> "none", symbol |-> "", qty |-> 0, price |-> 0, amount_in_usd |-> 0,
     buying_power_before |-> 0, buying_power_after |-> 0, buying_power_delta |-> 0,
     realized_profit_usd |-> 0, position_cost_used_usd |-> 0,
     position_cost_after_usd |-> 0, before |-> pnl_ledger]

\* a ledger just loaded, no record appended since
NoAudit == [loaded |-> 0, logged |-> 0]

InitRest ==
    /\ orders \in Histories
    /\ holdQty = [s \in Symbols |-> PositionQty(OrdersOf(orders, s))]
    /\ cost_basis = [s \in Symbols |-> 0]
    /\ dca_levels_triggered = [s \in Symbols |-> 0]
    /\ trailing_pm = [s \in Symbols |-> NoTrail]
    /\ dca_buy_ts = [s \in Symbols |-> <<>>]
    /\ dca_last_sell_ts = [s \in Symbols |-> 0]
    /\ cfg = DefaultTrailConfig
    /\ last_sig = SettingsSig(DefaultTrailConfig)
    /\ env \in Environments
    /\ max_dca_buys_per_24h = MAX_DCA_BUYS_PER_24H
    /\ dca_cooldown_minutes = env.cooldown
    /\ now = 2
    /\ pc = "init"
    /\ idx = 0
    /\ snap = SnapIdle
    /\ obs = [s \in Symbols |-> ObsIdle]
    /\ evalAbove = [s \in Symbols |-> FALSE]
    /\ prevTick = [s \in Symbols |-> "none"]
    /\ prevFired = [s \in Symbols |-> FALSE]
    /\ faults = 0
    /\ commands = 0
    /\ restarts = 0
    /\ edits = 0
    /\ pnl_ledger = [total_realized_profit_usd |-> 0,
                     open_positions |-> [s \in Symbols |-> NoPosition]]
    /\ ledgerOp = NoTrade
    /\ ledgerOps = 0
    /\ audit = NoAudit
    /\ fs = [f \in Files |-> Absent]
    /\ wr = NoWrite
    /\ mem = [p \in Paths |-> 0]
    /\ seen = [p \in Paths |-> Absent]
    /\ crashes = 0
    /\ noted = [s \in Symbols |-> << >>]
    /\ counted = NoCount
    /\ reset_call = NoReset
    /\ run = RunStart
    /\ entered = NoEntry
    /\ last_good_bid_ask = [s \in Symbols |-> NoQuote]
    /\ acct = NoAccount

\* no trigger computed
NoTrigger ==
    [done |-> FALSE, stage |-> 0, ask |-> 0, cb |-> 0, long |-> 0, start_level |-> 3,
     levels |-> << >>, hard_level |-> 0, hard_hit |-> FALSE, neural_hit |-> FALSE,
     attempt |-> FALSE, neural_next |-> 0]

\* no settings reload made
NoReload ==
    [done |-> FALSE, key |-> "none", parses |-> TRUE, raw |-> 0, cached |-> 0, prev |-> 0,
     loaded |-> 0, effective |-> 0]

\* no tick started
NoFunds ==
    [pc |-> "idle", actual |-> 0, buying_power |-> 0, last_good |-> -1, values |-> << >>,
     idx |-> 1, placed |-> << >>, accepted |-> 0, ticks |-> 0]

\* no command file, no command written yet
NoFile == [id |-> 0, kind |-> "none"]
NoCommand ==
    [file |-> NoFile, written |-> 0, kinds |-> << >>, runs |-> << >>, done |-> << >>,
     polls |-> 0]

InitUnits == trig = NoTrigger /\ gui = NoReload /\ funds = NoFunds /\ cmd = NoCommand

Init == InitRest /\ cb_in = NoCostInput /\ cb_out = NoCostOutput /\ InitUnits

CanOrder == Len(orders) < MaxOrders

\* the environment's budget: n more API failures, one more command
Failed(ok) == IF ok THEN 0 ELSE 1
Fault(n) == faults + n <= env.faults /\ faults' = faults + n
Command == commands < env.commands /\ commands' = commands + 1
Edit == edits < env.edits /\ edits' = edits + 1

\* calculate_cost_basis then initialize_dca_levels after a trade; each asks the
\* exchange for the orders of every held symbol, and any of the lookups may fail
Recompute(adopt, ords, hold, n) ==
    \E okCb \in SUBSET HeldSet(hold), okInit \in SUBSET HeldSet(hold) :
        /\ Fault(n + Failed(okCb = HeldSet(hold)) + Failed(okInit = HeldSet(hold)))
        /\ cost_basis' = IF adopt
                         THEN AdoptCostBasis(cost_basis, ords, hold, okCb, NoFallback)
                         ELSE CalculateCostBasis(ords, hold, okCb, NoFallback)
        /\ dca_levels_triggered' =
              InitializeDcaLevels(IF adopt THEN dca_levels_triggered
                                  ELSE [s \in Symbols |-> 0], ords, hold, okInit)

\* _poll_manual_command: no command file
ManualNone ==
    /\ pc = "poll"
    /\ pc' = "snapshot"
    /\ UNCHANGED << orders, holdQty, cost_basis, dca_levels_triggered, trailing_pm,
                    dca_buy_ts, dca_last_sell_ts, cfg, last_sig, max_dca_buys_per_24h,
                    dca_cooldown_minutes, now, idx, snap, obs, evalAbove, prevTick, prevFired,
                    faults, commands, restarts,
                    edits, env >>

\* _poll_manual_command: {"action": "buy"}; the order is accepted or refused
ManualBuy ==
    /\ pc = "poll"
    /\ pc' = "snapshot"
    /\ Command
    /\ \E s \in Coins, ok \in BOOLEAN : \E fill \in FillQtys(s), quote \in Quotes(s) :
        LET done == ok
            ords == IF done
                    THEN Append(orders, Order(s, "buy", "MANUAL_BUY", fill, quote[2]))
                    ELSE orders
            hold == IF done THEN [holdQty EXCEPT ![s] = @ + fill] ELSE holdQty
        IN  /\ done => CanOrder
            /\ orders' = ords
            /\ holdQty' = hold
            /\ obs' = [x \in Symbols |-> [ObsIdle EXCEPT !.manual = (done /\ x = s)]]
            /\ IF done
               THEN Recompute(TRUE, ords, hold, 0)
               ELSE Fault(Failed(ok)) /\ UNCHANGED << cost_basis, dca_levels_triggered >>
    /\ UNCHANGED << trailing_pm, dca_buy_ts, dca_last_sell_ts, cfg, last_sig,
                    max_dca_buys_per_24h, dca_cooldown_minutes, now, idx, snap,
                    evalAbove, prevTick, prevFired, restarts,
                    edits, env >>

\* _poll_manual_command: {"action": "sell"}: sells the whole holding
ManualSell ==
    /\ pc = "poll"
    /\ pc' = "snapshot"
    /\ Command
    /\ \E s \in Coins, ok \in BOOLEAN : \E quote \in Quotes(s) :
        LET done == ok /\ holdQty[s] > 0
            ords == IF done
                    THEN Append(orders, Order(s, "sell", "MANUAL_SELL", holdQty[s], quote[1]))
                    ELSE orders
            hold == IF done THEN [holdQty EXCEPT ![s] = 0] ELSE holdQty
        IN  /\ done => CanOrder
            /\ orders' = ords
            /\ holdQty' = hold
            /\ obs' = [x \in Symbols |-> [ObsIdle EXCEPT !.manual = (done /\ x = s)]]
            /\ IF done
               THEN /\ dca_last_sell_ts' = [dca_last_sell_ts EXCEPT ![s] = now]
                    /\ dca_buy_ts' = [dca_buy_ts EXCEPT ![s] = <<>>]
                    /\ trailing_pm' = [trailing_pm EXCEPT ![s] = NoTrail]
                    /\ Recompute(TRUE, ords, hold, 0)
               ELSE /\ Fault(IF holdQty[s] > 0 THEN Failed(ok) ELSE 0)
                    /\ UNCHANGED << cost_basis, dca_levels_triggered, dca_last_sell_ts,
                                    dca_buy_ts, trailing_pm >>
    /\ UNCHANGED << cfg, last_sig, max_dca_buys_per_24h, dca_cooldown_minutes, now, idx,
                    snap, evalAbove, prevTick, prevFired, restarts,
                    edits, env >>

\* what get_best_bid_ask can answer: one bid/ask per symbol
QuoteChoices ==
    {q \in [Symbols -> Quotes("BTC") \cup Quotes("ETH")] : \A s \in Symbols : q[s] \in Quotes(s)}

\* get_price: the pricebooks fetched now, and for a symbol that was not fetched the
\* cached bid/ask when there is one.  The result is also the cache after the call; the
\* symbols with a quote are the valid_symbols.
GetPrice(cache, fetched) ==
    [s \in Symbols |-> IF fetched[s] # NoQuote THEN fetched[s] ELSE cache[s]]

\* the hot reload of the trailing settings: a changed signature resets ALL trailing state
ReloadKeepsTrailing(tpm, old_sig, new_sig) == tpm
ReloadTrailing(tpm, old_sig, new_sig) ==
    IF new_sig # old_sig THEN [s \in Symbols |-> NoTrail] ELSE tpm

\* manage_trades: the settings reload, then the account, holdings and trading-pair fetch
\* and the prices of the held and the tracked symbols.
\* A failed holdings fetch raises on the first use of the payload: the tick is over.
\* The bid/ask cache is read only when a fetch misses a symbol, so it is kept only in the
\* deployments whose price fetch can fail; there the tracked symbols are quoted as well.
Snapshot ==
    /\ pc = "snapshot"
    /\ \E c \in TrailConfigs, bp \in BuyingPowers, tp \in BOOLEAN, hOk \in BOOLEAN,
          priceOk \in BOOLEAN, q \in QuoteChoices :
        LET tpm == ReloadTrailing(trailing_pm, last_sig, SettingsSig(c))
            asked == {s \in Symbols :
                        holdQty[s] > 0 \/ (env.price_faults > 0 /\ s \in Coins)}
            fetched == [s \in Symbols |->
                           IF priceOk /\ hOk /\ s \in asked THEN q[s] ELSE NoQuote]
            prices == GetPrice(last_good_bid_ask, fetched)
        IN  /\ tp \/ hOk
            /\ priceOk \/ (hOk /\ env.price_faults > 0)
            /\ \A s \in Symbols : s \in asked \/ q[s] = <<900, 900>>
            /\ cfg' = c
            /\ IF c = cfg THEN UNCHANGED edits ELSE Edit
            /\ Fault(Failed(hOk) + (IF hOk THEN Failed(tp) + Failed(priceOk) ELSE 0))
            /\ last_sig' = SettingsSig(c)
            /\ trailing_pm' = tpm
            /\ last_good_bid_ask' = IF hOk /\ env.price_faults > 0
                                    THEN prices ELSE last_good_bid_ask
            /\ IF hOk
               THEN /\ snap' = [holdings |-> HeldSeq(holdQty), qty |-> holdQty,
                                buying_power |-> bp, trading_pairs |-> tp,
                                trades_made |-> FALSE, holdings_ok |-> TRUE,
                                quotes |-> [s \in Symbols |->
                                              IF holdQty[s] > 0 THEN prices[s]
                                              ELSE NoQuote],
                                price_ok |-> priceOk,
                                discarded |-> {s \in Symbols :
                                                 /\ trailing_pm[s].exists
                                                 /\ SettingsSig(c) # last_sig}]
                    /\ pc' = "holdings"
                    /\ idx' = 1
                    /\ UNCHANGED << now, prevTick, prevFired, obs >>
               ELSE EndTick(tpm, obs)
    /\ entered' = NoEntry
    /\ UNCHANGED << orders, holdQty, cost_basis, dca_levels_triggered, dca_buy_ts,
                    dca_last_sell_ts, max_dca_buys_per_24h, dca_cooldown_minutes,
                    evalAbove, commands, restarts, env >>

\* the DCA branch taken for one holding: which of the log lines of the gate is reached
DcaOutcome(hit, recent_dca, cooldown_ok, dca_amount, buying_power, placed) ==
    IF ~hit THEN "hold"
    ELSE IF recent_dca >= max_dca_buys_per_24h THEN "limit"
    ELSE IF ~cooldown_ok THEN "cooldown"
    ELSE IF dca_amount <= buying_power THEN (IF placed THEN "bought" ELSE "failed")
    ELSE "funds"

\* manage_trades: one iteration of the loop over the holdings
EvalHolding ==
    /\ pc = "holdings"
    /\ idx <= Len(snap.holdings)
    /\ LET s == snap.holdings[idx]
           quantity == snap.qty[s]
           avg_cost_basis == cost_basis[s]
           stage == dca_levels_triggered[s]
       IN  \E quote \in {snap.quotes[s]}, long \in LongInputs(stage),
              sellOk \in BOOLEAN, buyOk \in BOOLEAN, refetchOk \in BOOLEAN :
            LET bid == quote[1]
                ask == quote[2]
                base == BasePmLine(cfg, avg_cost_basis, stage)
                fresh == ~trailing_pm[s].exists
                            \/ trailing_pm[s].settings_sig # SettingsSig(cfg)
                st0 == TrailRebase(trailing_pm[s], cfg, base)
                above_now == AboveNow(st0, bid)
                st1 == TrailRatchet(TrailActivate(st0, bid), cfg, base, bid)
                fires == ExitFires(st1, bid)
                sold == fires /\ sellOk
                st2 == SaveWasAbove(st1, above_now)
                value == quantity * bid
                dca_amount == value * DCA_MULTIPLIER
                fill == dca_amount \div ask
                hit == HardHit(ask, avg_cost_basis, stage)
                          \/ NeuralHit(ask, avg_cost_basis, stage, long)
                pruned == DcaWindowPrune(dca_buy_ts[s], dca_last_sell_ts[s], now)
                outcome == DcaOutcome(hit, Len(pruned), CooldownOk(pruned, now),
                                      dca_amount, snap.buying_power, buyOk)
                seenObs == [ObsIdle EXCEPT !.seen = TRUE, !.bid = bid, !.stage0 = stage,
                                           !.manual = obs[s].manual]
                evalObs == [seenObs EXCEPT !.evald = TRUE, !.fresh = fresh,
                                           !.fired = fires, !.line = st1.line,
                                           !.prev_above = evalAbove[s]]
            IN  /\ idx' = idx + 1
                /\ pc' = pc
                /\ sellOk \/ (avg_cost_basis > 0 /\ fires)
                /\ refetchOk \/ (avg_cost_basis > 0 /\ sold)
                /\ buyOk \/ (avg_cost_basis > 0 /\ ~sold /\ outcome = "failed")
                /\ UNCHANGED << cost_basis, cfg, last_sig, max_dca_buys_per_24h,
                                dca_cooldown_minutes, now, prevTick, prevFired, commands, restarts,
                    edits, env >>
                /\ IF quote = NoQuote
                   THEN \* "if full_symbol not in valid_symbols": the holding is skipped
                        UNCHANGED << orders, holdQty, dca_levels_triggered, trailing_pm,
                                     dca_buy_ts, dca_last_sell_ts, snap, evalAbove,
                                     faults, obs >>
                   ELSE IF avg_cost_basis <= 0
                   THEN \* "no cost basis on record": the holding is skipped
                        /\ obs' = [obs EXCEPT ![s] = seenObs]
                        /\ UNCHANGED << orders, holdQty, dca_levels_triggered, trailing_pm,
                                        dca_buy_ts, dca_last_sell_ts, snap, evalAbove,
                                        faults >>
                   ELSE IF sold
                   THEN \* trailing exit: the whole holding is sold, the rest is skipped
                        /\ CanOrder
                        /\ Fault(Failed(refetchOk))
                        /\ orders' = Append(orders, Order(s, "sell", "TRAIL_SELL", quantity, bid))
                        /\ holdQty' = [holdQty EXCEPT ![s] = 0]
                        /\ trailing_pm' = [trailing_pm EXCEPT ![s] = NoTrail]
                        /\ dca_last_sell_ts' = [dca_last_sell_ts EXCEPT ![s] = now]
                        /\ dca_buy_ts' = [dca_buy_ts EXCEPT ![s] = <<>>]
                        /\ snap' = [snap EXCEPT !.trades_made = TRUE,
                                                !.holdings_ok = refetchOk]
                        /\ obs' = [obs EXCEPT ![s] = [evalObs EXCEPT !.sold = TRUE]]
                        /\ evalAbove' = [evalAbove EXCEPT ![s] = FALSE]
                        /\ UNCHANGED dca_levels_triggered
                   ELSE /\ Fault((IF fires THEN 1 ELSE 0)
                                   + (IF outcome = "failed" THEN 1 ELSE 0))
                        /\ obs' = [obs EXCEPT ![s] = [evalObs EXCEPT !.dca = outcome]]
                        /\ evalAbove' = [evalAbove EXCEPT ![s] = (bid * LineScale >= st1.line)]
                        /\ dca_buy_ts' =
                             [dca_buy_ts EXCEPT ![s] =
                                 IF outcome = "bought"
                                 THEN NoteDcaBuy(pruned, dca_last_sell_ts[s], now)
                                 ELSE IF hit THEN pruned ELSE @]
                        /\ UNCHANGED dca_last_sell_ts
                        /\ IF outcome = "bought"
                           THEN /\ CanOrder
                                /\ orders' = Append(orders, Order(s, "buy", "DCA", fill, ask))
                                /\ holdQty' = [holdQty EXCEPT ![s] = @ + fill]
                                /\ dca_levels_triggered' =
                                      [dca_levels_triggered EXCEPT ![s] = @ + 1]
                                /\ trailing_pm' = [trailing_pm EXCEPT ![s] = NoTrail]
                                /\ snap' = [snap EXCEPT !.trades_made = TRUE]
                           ELSE /\ trailing_pm' = [trailing_pm EXCEPT ![s] = st2]
                                /\ UNCHANGED << orders, holdQty, dca_levels_triggered, snap >>

\* manage_trades between the two loops: "if not trading_pairs: return", then the first
\* use of the holdings payload re-fetched after a sell (None raises; run catches it)
HoldingsDone ==
    /\ pc = "holdings"
    /\ idx > Len(snap.holdings)
    /\ IF ~snap.trading_pairs \/ ~snap.holdings_ok
       THEN EndTick(trailing_pm, obs)
       ELSE /\ pc' = "entry"
            /\ idx' = 1
            /\ UNCHANGED << snap, now, prevTick, prevFired, obs >>
    /\ UNCHANGED << orders, holdQty, cost_basis, dca_levels_triggered, trailing_pm,
                    dca_buy_ts, dca_last_sell_ts, cfg, last_sig, max_dca_buys_per_24h,
                    dca_cooldown_minutes, evalAbove, faults, commands, restarts,
                    edits, env >>

start_level == Max(1, Min(TRADE_START_LEVEL, 7))

\* "if not (buy_count >= start_level and sell_count == 0): ... continue"
EntryGateLongOnly(buy_count, sell_count) == buy_count >= start_level
EntryGate(buy_count, sell_count) == buy_count >= start_level /\ sell_count = 0

\* manage_trades: one iteration of the loop that starts new trades
EntryIdle ==
    /\ idx' = idx + 1
    /\ pc' = pc
    /\ UNCHANGED << orders, holdQty, dca_levels_triggered, dca_buy_ts, trailing_pm, snap,
                    now, prevTick, prevFired, obs, entered >>

TryEntry ==
    /\ pc = "entry"
    /\ idx <= Len(crypto_symbols)
    /\ LET base_symbol == crypto_symbols[idx]
           held == holdQty[base_symbol] > 0 /\ cost_basis[base_symbol] > 0
       IN  IF held
           THEN EntryIdle /\ UNCHANGED faults
           ELSE \E buy_count \in LongLevels, sell_count \in ShortLevels :
                IF ~EntryGate(buy_count, sell_count)
                THEN EntryIdle /\ UNCHANGED faults
                ELSE \/ Fault(1) /\ EntryIdle
                     \/ \E refetchOk \in BOOLEAN :
                        \E fill \in FillQtys(base_symbol), quote \in Quotes(base_symbol) :
                          /\ CanOrder
                          /\ Fault(Failed(refetchOk))
                          /\ orders' = Append(orders,
                                 Order(base_symbol, "buy", "NONE", fill, quote[2]))
                          /\ holdQty' = [holdQty EXCEPT ![base_symbol] = @ + fill]
                          /\ dca_levels_triggered' =
                                [dca_levels_triggered EXCEPT ![base_symbol] = 0]
                          /\ dca_buy_ts' = [dca_buy_ts EXCEPT ![base_symbol] = <<>>]
                          /\ trailing_pm' = [trailing_pm EXCEPT ![base_symbol] = NoTrail]
                          /\ entered' = [sym |-> base_symbol, buy_count |-> buy_count,
                                         sell_count |-> sell_count]
                          /\ IF refetchOk
                             THEN /\ snap' = [snap EXCEPT !.trades_made = TRUE]
                                  /\ pc' = pc
                                  /\ idx' = idx + 1
                                  /\ UNCHANGED << now, prevTick, prevFired, obs >>
                             ELSE EndTick(trailing_pm', obs)
    /\ UNCHANGED << cost_basis, dca_last_sell_ts, cfg, last_sig, max_dca_buys_per_24h,
                    dca_cooldown_minutes, evalAbove, commands, restarts,
                    edits, env >>

\* manage_trades: "if trades_made": cost basis and DCA stages are recomputed from the
\* order history; then the tick is over
EndOfTick ==
    /\ pc = "entry"
    /\ idx > Len(crypto_symbols)
    /\ IF snap.trades_made
       THEN Recompute(TRUE, orders, holdQty, 0)
       ELSE UNCHANGED << cost_basis, dca_levels_triggered, faults >>
    /\ entered' = NoEntry
    /\ EndTick(trailing_pm, obs)
    /\ UNCHANGED << orders, holdQty, trailing_pm, dca_buy_ts, dca_last_sell_ts, cfg,
                    last_sig, max_dca_buys_per_24h, dca_cooldown_minutes, evalAbove,
                    commands, restarts,
                    edits, env >>

\* _seed_dca_window_from_history, from the trade log
SeedLastSell(ords) ==
    MaxSeq([i \in 1..Len(ords) |-> IF ords[i].side = "sell" THEN ords[i].ts ELSE 0])

SeedDcaBuys(ords, t) ==
    LET dca == SelectSeq(ords, LAMBDA o : o.side = "buy" /\ o.tag = "DCA")
    IN  DcaWindowPrune([i \in 1..Len(dca) |-> dca[i].ts], SeedLastSell(ords), t)

\* __init__: cost basis and DCA stages from the order history, no trailing state, the
\* DCA window seeded from the trade log
Construct ==
    /\ pc = "init"
    /\ pc' = "poll"
    /\ Recompute(FALSE, orders, holdQty, 0)
    /\ trailing_pm' = [s \in Symbols |-> NoTrail]
    /\ last_sig' = SettingsSig(cfg)
    /\ dca_last_sell_ts' = [s \in Symbols |-> SeedLastSell(OrdersOf(orders, s))]
    /\ dca_buy_ts' = [s \in Symbols |-> SeedDcaBuys(OrdersOf(orders, s), now)]
    /\ evalAbove' = [s \in Symbols |-> FALSE]
    /\ prevTick' = [s \in Symbols |-> "none"]
    /\ prevFired' = [s \in Symbols |-> FALSE]
    /\ last_good_bid_ask' = [s \in Symbols |-> NoQuote]
    /\ UNCHANGED << orders, holdQty, cfg, max_dca_buys_per_24h, dca_cooldown_minutes,
                    now, idx, snap, obs, commands, restarts,
                    edits, env >>

\* the process is stopped between two ticks and started again
Restart ==
    /\ pc = "poll"
    /\ restarts < env.restarts
    /\ restarts' = restarts + 1
    /\ pc' = "init"
    /\ UNCHANGED << orders, holdQty, cost_basis, dca_levels_triggered, trailing_pm,
                    dca_buy_ts, dca_last_sell_ts, cfg, last_sig, max_dca_buys_per_24h,
                    dca_cooldown_minutes, now, idx, snap, obs, evalAbove, prevTick, prevFired,
                    faults, commands, edits, env >>

(***************************************************************************)
(* The accounting ledger: place_buy_order / place_sell_order and the       *)
(* _record_trade they call.                                                *)
(***************************************************************************)
\* what the exchange reports around an order: the USD balance before and after it, the
\* price quoted after it (0: no quote), the USD amount of a buy, the quantity of a sell
Balances == {0, 10000, 25000}
BuyAmounts == {10000, 20000}
LedgerPrices == {0, 1}
SellQtys == {10000, 19998, 20000}

Abs(x) == IF x < 0 THEN -x ELSE x

\* the balance change taken as observed, settled or not
RawBuyDelta(buying_power_delta, amount_in_usd) == buying_power_delta

\* place_buy_order: a balance that has not dropped by a cent has not settled; the order
\* amount stands in for it
SettledBuyDelta(buying_power_delta, amount_in_usd) ==
    IF buying_power_delta > -SettleEps THEN -amount_in_usd ELSE buying_power_delta

\* place_buy_order: fill_qty, estimated from the money spent and the price quoted
BuyFillQty(buying_power_delta, fill_price) ==
    IF fill_price > 0 THEN (Abs(buying_power_delta) * PriceScale) \div fill_price ELSE 0

\* place_sell_order: a balance that has not risen by a cent has not settled; quantity
\* times price stands in for it when a price is known
SettledSellDelta(buying_power_delta, actual_qty, actual_price) ==
    IF buying_power_delta < SettleEps /\ actual_price > 0
    THEN (actual_qty * actual_price) \div PriceScale
    ELSE buying_power_delta

\* _record_trade, buy: usd_used
UsdUsed(bp_delta) == IF -bp_delta < 0 THEN 0 ELSE -bp_delta

\* _record_trade, sell: usd_got
UsdGot(bp_delta) == IF bp_delta < 0 THEN 0 ELSE bp_delta

\* a sell that always removes the whole cost of the position
CostUsedWhole(pos_usd_cost, pos_qty, q) == pos_usd_cost

\* _record_trade, sell: cost_used = pos_usd_cost * frac, frac = min(1, q / pos_qty)
CostUsed(pos_usd_cost, pos_qty, q) ==
    IF pos_qty > 0 /\ q > 0
    THEN (IF q >= pos_qty THEN pos_usd_cost ELSE (pos_usd_cost * q) \div pos_qty)
    ELSE pos_usd_cost

\* a clean-up that waits for quantity and cost to be dust together
IsDustBoth(qty, usd_cost) == qty <= DustQty /\ usd_cost <= DustCost

\* _record_trade, sell: "clean up tiny dust"
IsDust(qty, usd_cost) == qty <= DustQty \/ usd_cost <= DustCost

\* a buy booked as a loss of the money spent
RecordBuyAsLoss(ledger, base, q, bp_delta) ==
    LET pos == ledger.open_positions[base]
    IN  [total_realized_profit_usd |-> ledger.total_realized_profit_usd - UsdUsed(bp_delta),
         open_positions |->
            [ledger.open_positions EXCEPT ![base] =
                [open |-> TRUE,
                 usd_cost |-> pos.usd_cost + UsdUsed(bp_delta),
                 qty |-> pos.qty + (IF q > 0 THEN q ELSE 0)]]]

\* _record_trade, buy branch: the ledger after it
RecordBuy(ledger, base, q, bp_delta) ==
    LET pos == ledger.open_positions[base]
    IN  [ledger EXCEPT !.open_positions[base] =
            [open |-> TRUE,
             usd_cost |-> pos.usd_cost + UsdUsed(bp_delta),
             qty |-> pos.qty + (IF q > 0 THEN q ELSE 0)]]

\* _record_trade, sell branch: the ledger after it
RecordSell(ledger, base, q, bp_delta) ==
    LET pos == ledger.open_positions[base]
        cost_used == CostUsed(pos.usd_cost, pos.qty, q)
        usd_cost == pos.usd_cost - cost_used
        qty == pos.qty - (IF q > 0 THEN q ELSE 0)
        realized == UsdGot(bp_delta) - cost_used
    IN  [total_realized_profit_usd |-> ledger.total_realized_profit_usd + realized,
         open_positions |->
            [ledger.open_positions EXCEPT ![base] =
                IF IsDust(qty, usd_cost) THEN NoPosition
                ELSE [open |-> TRUE, usd_cost |-> usd_cost, qty |-> qty]]]

\* the line _record_trade appends to the trade history, with the ledger it found
TradeEntry(side, base, q, price, amount, before, after, bp_delta) ==
    LET pos == pnl_ledger.open_positions[base]
        cost_used == CostUsed(pos.usd_cost, pos.qty, q)
    IN  [side |-> side, symbol |-> base, qty |-> q, price |-> price,
         amount_in_usd |-> amount,
         buying_power_before |-> before, buying_power_after |-> after,
         buying_power_delta |-> bp_delta,
         realized_profit_usd |-> IF side = "sell" THEN UsdGot(bp_delta) - cost_used ELSE 0,
         position_cost_used_usd |-> IF side = "sell" THEN cost_used ELSE 0,
         position_cost_after_usd |->
            IF side = "sell" THEN pos.usd_cost - cost_used
            ELSE pos.usd_cost + UsdUsed(bp_delta),
         before |-> pnl_ledger]

\* place_buy_order: the order is refused (nothing is recorded) or placed and recorded
PlaceBuyOrder ==
    /\ ledgerOps < MaxLedgerOps
    /\ ledgerOps' = ledgerOps + 1
    /\ \E symbol \in Symbols, amount_in_usd \in BuyAmounts, success \in BOOLEAN,
          buying_power_before \in Balances, buying_power_after \in Balances,
          fill_price \in LedgerPrices :
        LET buying_power_delta ==
                SettledBuyDelta(buying_power_after - buying_power_before, amount_in_usd)
            fill_qty == BuyFillQty(buying_power_delta, fill_price)
        IN  IF success
            THEN /\ pnl_ledger' = RecordBuy(pnl_ledger, symbol, fill_qty, buying_power_delta)
                 /\ ledgerOp' = TradeEntry("buy", symbol, fill_qty, fill_price,
                                           amount_in_usd, buying_power_before,
                                           buying_power_after, buying_power_delta)
                 /\ audit' = [audit EXCEPT !.logged = @ + ledgerOp'.realized_profit_usd]
            ELSE /\ buying_power_after = buying_power_before
                 /\ fill_price = 0
                 /\ UNCHANGED << pnl_ledger, audit >>
                 /\ ledgerOp' = NoTrade

\* place_sell_order: the order is refused (nothing is recorded) or placed and recorded
PlaceSellOrder ==
    /\ ledgerOps < MaxLedgerOps
    /\ ledgerOps' = ledgerOps + 1
    /\ \E symbol \in Symbols, asset_quantity \in SellQtys, success \in BOOLEAN,
          buying_power_before \in Balances, buying_power_after \in Balances,
          actual_price \in LedgerPrices :
        LET buying_power_delta ==
                SettledSellDelta(buying_power_after - buying_power_before,
                                 asset_quantity, actual_price)
        IN  IF success
            THEN /\ pnl_ledger' = RecordSell(pnl_ledger, symbol, asset_quantity,
                                             buying_power_delta)
                 /\ ledgerOp' = TradeEntry("sell", symbol, asset_quantity, actual_price,
                                           0, buying_power_before, buying_power_after,
                                           buying_power_delta)
                 /\ audit' = [audit EXCEPT !.logged = @ + ledgerOp'.realized_profit_usd]
            ELSE /\ buying_power_after = buying_power_before
                 /\ actual_price = 0
                 /\ UNCHANGED << pnl_ledger, audit >>
                 /\ ledgerOp' = NoTrade

\* the ledger file as _load_pnl_ledger finds it when the process is started again: the
\* ledger last saved, or no readable file
LedgerFiles == {"saved", "unreadable"}

\* _load_pnl_ledger: the file's ledger, or an empty ledger when the file cannot be read
LoadedLedger(file, saved) ==
    IF file = "saved" THEN saved
    ELSE [total_realized_profit_usd |-> 0,
          open_positions |-> [s \in Symbols |-> NoPosition]]

\* __init__: the process is started again and loads the ledger
LedgerRestart ==
    /\ ledgerOps > 0
    /\ ledgerOps < MaxLedgerOps
    /\ ledgerOps' = ledgerOps + 1
    /\ \E file \in LedgerFiles :
        /\ pnl_ledger' = LoadedLedger(file, pnl_ledger)
        /\ audit' = [loaded |-> pnl_ledger'.total_realized_profit_usd, logged |-> 0]
        /\ ledgerOp' = [NoTrade EXCEPT !.side = "load"]

Next ==
    \/ (ManualNone /\ UNCHANGED << ledgerVars, fileVars, trackVars, costVars, runVars, entryVars, priceVars, acctVars, unitVars >>)
    \/ (ManualBuy /\ UNCHANGED << ledgerVars, fileVars, trackVars, costVars, runVars, entryVars, priceVars, acctVars, unitVars >>)
    \/ (ManualSell /\ UNCHANGED << ledgerVars, fileVars, trackVars, costVars, runVars, entryVars, priceVars, acctVars, unitVars >>)
    \/ (Snapshot /\ UNCHANGED << ledgerVars, fileVars, trackVars, costVars, runVars, acctVars, unitVars >>)
    \/ (EvalHolding /\ UNCHANGED << ledgerVars, fileVars, trackVars, costVars, runVars, entryVars, priceVars, acctVars, unitVars >>)
    \/ (HoldingsDone /\ UNCHANGED << ledgerVars, fileVars, trackVars, costVars, runVars, entryVars, priceVars, acctVars, unitVars >>)
    \/ (TryEntry /\ UNCHANGED << ledgerVars, fileVars, trackVars, costVars, runVars, priceVars, acctVars, unitVars >>)
    \/ (EndOfTick /\ UNCHANGED << ledgerVars, fileVars, trackVars, costVars, runVars, priceVars, acctVars, unitVars >>)
    \/ (Construct /\ UNCHANGED << ledgerVars, fileVars, trackVars, costVars, runVars, entryVars, acctVars, unitVars >>)
    \/ (Restart /\ UNCHANGED << ledgerVars, fileVars, trackVars, costVars, runVars, entryVars, priceVars, acctVars, unitVars >>)

Spec == Init /\ [][Next]_vars

\* the ledger on its own: any sequence of buy and sell orders on the two symbols
InitLedger == Init /\ orders = <<>> /\ Len(env.coins) = 2

NextLedger ==
    \/ (PlaceBuyOrder /\ UNCHANGED << engineVars, fileVars, trackVars, costVars, runVars, entryVars, priceVars, acctVars, unitVars >>)
    \/ (PlaceSellOrder /\ UNCHANGED << engineVars, fileVars, trackVars, costVars, runVars, entryVars, priceVars, acctVars, unitVars >>)
    \/ (LedgerRestart /\ UNCHANGED << engineVars, fileVars, trackVars, costVars, runVars, entryVars, priceVars, acctVars, unitVars >>)

SpecLedger == InitLedger /\ [][NextLedger]_vars

(***************************************************************************)
(* Persistence: _atomic_write_json writes the document to "<path>.tmp" and *)
(* renames it over the path.  A document is DocChunks chunks, each         *)
(* carrying the version of the state it was dumped from; a file holding    *)
(* fewer chunks is a partial dump.                                         *)
(***************************************************************************)
Doc(v) == [i \in 1..DocChunks |-> v]
Complete(data) == \E v \in 0..MaxVersion : data = Doc(v)

\* tmp = f"{path}.tmp"
InPlacePath(path) == path
TmpPath(path) ==
    IF path = "pnl_ledger.json" THEN "pnl_ledger.json.tmp" ELSE "trader_status.json.tmp"

\* os.replace(src, dst): one atomic step of the file system
Replace(files, src, dst) ==
    IF src = dst THEN files
    ELSE [files EXCEPT ![dst] = files[src], ![src] = Absent]

\* json.load of a file: the state it holds, defaults when it does not parse
ParseOr(file, default) ==
    IF file.present /\ Complete(file.data) THEN file.data[1] ELSE default

\* the state changes in memory and the write begins: open(tmp, "w") creates or
\* truncates the temporary; when the open raises nothing is written
AtomicWriteOpen ==
    /\ wr.pc = "idle"
    /\ \E p \in Paths, ok \in BOOLEAN :
        /\ mem[p] < MaxVersion
        /\ mem' = [mem EXCEPT ![p] = mem[p] + 1]
        /\ IF ok
             THEN /\ fs' = [fs EXCEPT ![TmpPath(p)] = [present |-> TRUE, data |-> << >>]]
                  /\ wr' = [pc |-> "dumping", path |-> p, data |-> mem[p] + 1,
                            before |-> fs[p]]
             ELSE UNCHANGED << fs, wr >>
    /\ UNCHANGED << seen, crashes >>

\* json.dump writes the next chunk; after the last one the file is closed
AtomicWriteDump ==
    /\ wr.pc = "dumping"
    /\ LET tmp == TmpPath(wr.path)
           data == Append(fs[tmp].data, wr.data)
       IN  /\ fs' = [fs EXCEPT ![tmp].data = data]
           /\ wr' = [wr EXCEPT !.pc = IF Len(data) = DocChunks THEN "written"
                                      ELSE "dumping"]
    /\ UNCHANGED << mem, seen, crashes >>

\* os.replace(tmp, path)
AtomicWriteReplace ==
    /\ wr.pc = "written"
    /\ fs' = Replace(fs, TmpPath(wr.path), wr.path)
    /\ wr' = NoWrite
    /\ UNCHANGED << mem, seen, crashes >>

\* the dump or the rename raises: except Exception: pass
AtomicWriteFails ==
    /\ wr.pc \in {"dumping", "written"}
    /\ wr' = NoWrite
    /\ UNCHANGED << fs, mem, seen, crashes >>

\* the process dies, at any step of a write or between writes
Crash ==
    /\ wr.pc # "down"
    /\ crashes < MaxCrashes
    /\ crashes' = crashes + 1
    /\ wr' = [NoWrite EXCEPT !.pc = "down"]
    /\ UNCHANGED << fs, mem, seen >>

\* restart: the ledger is read back from its path, the status starts afresh
LoadPnlLedger ==
    /\ wr.pc = "down"
    /\ seen' = [seen EXCEPT !["pnl_ledger.json"] = fs["pnl_ledger.json"]]
    /\ mem' = [p \in Paths |-> IF p = "pnl_ledger.json" THEN ParseOr(fs[p], 0) ELSE 0]
    /\ wr' = NoWrite
    /\ UNCHANGED << fs, crashes >>

\* another process (the dashboard) opens a path and reads it whole
ReaderRead ==
    /\ \E p \in Paths : seen' = [seen EXCEPT ![p] = fs[p]]
    /\ UNCHANGED << fs, wr, mem, crashes >>

InitFiles == InitLedger

NextFiles ==
    \/ (AtomicWriteOpen /\ UNCHANGED << engineVars, ledgerVars, trackVars, costVars, runVars, entryVars, priceVars, acctVars, unitVars >>)
    \/ (AtomicWriteDump /\ UNCHANGED << engineVars, ledgerVars, trackVars, costVars, runVars, entryVars, priceVars, acctVars, unitVars >>)
    \/ (AtomicWriteReplace /\ UNCHANGED << engineVars, ledgerVars, trackVars, costVars, runVars, entryVars, priceVars, acctVars, unitVars >>)
    \/ (AtomicWriteFails /\ UNCHANGED << engineVars, ledgerVars, trackVars, costVars, runVars, entryVars, priceVars, acctVars, unitVars >>)
    \/ (Crash /\ UNCHANGED << engineVars, ledgerVars, trackVars, costVars, runVars, entryVars, priceVars, acctVars, unitVars >>)
    \/ (LoadPnlLedger /\ UNCHANGED << engineVars, ledgerVars, trackVars, costVars, runVars, entryVars, priceVars, acctVars, unitVars >>)
    \/ (ReaderRead /\ UNCHANGED << engineVars, ledgerVars, trackVars, costVars, runVars, entryVars, priceVars, acctVars, unitVars >>)

SpecFiles == InitFiles /\ [][NextFiles]_vars

(***************************************************************************)
(* The rate tracker on its own: any sequence of _reset_dca_window_for_trade,*)
(* _note_dca_buy and _dca_window_count calls, each stamped with time.time().*)
(***************************************************************************)
trackerFrame ==
    UNCHANGED << orders, holdQty, cost_basis, dca_levels_triggered, trailing_pm, cfg,
                 last_sig, max_dca_buys_per_24h, dca_cooldown_minutes, pc, idx, snap,
                 obs, evalAbove, prevTick, prevFired, faults, commands, restarts, edits, env >>

\* time passes between two calls
ClockAdvance ==
    /\ now < MaxClock
    /\ now' = now + 1
    /\ counted' = NoCount
    /\ reset_call' = NoReset
    /\ UNCHANGED << dca_buy_ts, dca_last_sell_ts, noted >>

\* a reset that moves the sell boundary whatever "sold" says
ResetLastSellAlways(last_sell, s, sold, t) == [last_sell EXCEPT ![s] = t]
\* "if sold: self._dca_last_sell_ts[base] = ..."
ResetLastSell(last_sell, s, sold, t) ==
    IF sold THEN [last_sell EXCEPT ![s] = t] ELSE last_sell

\* _reset_dca_window_for_trade(sym, sold)
ResetDcaWindowForTrade ==
    \E s \in Symbols, sold \in BOOLEAN :
        /\ dca_last_sell_ts' = ResetLastSell(dca_last_sell_ts, s, sold, now)
        /\ dca_buy_ts' = [dca_buy_ts EXCEPT ![s] = << >>]
        /\ reset_call' = [sym |-> s, sold |-> sold, t |-> now]
        /\ noted' = [noted EXCEPT ![s] = << >>]
        /\ counted' = [counted EXCEPT ![s] = -1]
        /\ UNCHANGED now

\* _note_dca_buy(sym): a buy follows the sell of the previous trade by at least the
\* settlement sleeps, so its time.time() is past the sell boundary
NoteBuy ==
    \E s \in Symbols :
        /\ now > dca_last_sell_ts[s]
        /\ Len(noted[s]) < MaxNoted
        /\ dca_buy_ts' = [dca_buy_ts EXCEPT
                             ![s] = NoteDcaBuy(dca_buy_ts[s], dca_last_sell_ts[s], now)]
        /\ noted' = [noted EXCEPT ![s] = Append(@, now)]
        /\ counted' = [counted EXCEPT ![s] = -1]
        /\ reset_call' = NoReset
        /\ UNCHANGED << now, dca_last_sell_ts >>

\* _dca_window_count(sym): prunes the list in place and returns its length
WindowCount ==
    \E s \in Symbols :
        LET ts_list == DcaWindowPrune(dca_buy_ts[s], dca_last_sell_ts[s], now)
        IN  /\ dca_buy_ts' = [dca_buy_ts EXCEPT ![s] = ts_list]
            /\ counted' = [counted EXCEPT ![s] = Len(ts_list)]
            /\ reset_call' = NoReset
            /\ UNCHANGED << now, dca_last_sell_ts, noted >>

InitTracker == InitLedger

NextTracker ==
    \/ (ClockAdvance /\ trackerFrame /\ UNCHANGED << ledgerVars, fileVars, costVars, runVars, entryVars, priceVars, acctVars, unitVars >>)
    \/ (ResetDcaWindowForTrade /\ trackerFrame /\ UNCHANGED << ledgerVars, fileVars, costVars, runVars, entryVars, priceVars, acctVars, unitVars >>)
    \/ (NoteBuy /\ trackerFrame /\ UNCHANGED << ledgerVars, fileVars, costVars, runVars, entryVars, priceVars, acctVars, unitVars >>)
    \/ (WindowCount /\ trackerFrame /\ UNCHANGED << ledgerVars, fileVars, costVars, runVars, entryVars, priceVars, acctVars, unitVars >>)

SpecTracker == InitTracker /\ [][NextTracker]_vars

(***************************************************************************)
(* calculate_cost_basis for one asset, on any answer of the exchange: the  *)
(* filled orders (oldest first), the held quantity, the ask price, and     *)
(* which of the lookups answers.                                           *)
(***************************************************************************)
FilledOrders ==
    { [sym |-> "BTC", side |-> "buy", tag |-> "NONE", qty |-> 1, price |-> 900, ts |-> 1],
      [sym |-> "BTC", side |-> "buy", tag |-> "DCA", qty |-> 2, price |-> 1000, ts |-> 1],
      [sym |-> "BTC", side |-> "buy", tag |-> "NONE", qty |-> 1, price |-> 1000, ts |-> 1],
      [sym |-> "BTC", side |-> "sell", tag |-> "TRAIL_SELL", qty |-> 1, price |-> 950, ts |-> 1] }

OrderLists == UNION { [1..n -> FilledOrders] : n \in 0..MaxFills }

CostInputs ==
    [fills : OrderLists, quantity : 0..MaxHeld, price : {950},
     lookup : {"ok", "price_missing", "price_error", "orders_error"}]

\* get_price inside calculate_cost_basis: a missing key reads 0.0, an exception is passed
FallbackPrice(in) == IF in.lookup = "ok" THEN in.price ELSE 0

\* the loop body of calculate_cost_basis for the asset
CalculateOne ==
    /\ ~cb_out.done
    /\ cb_out' = IF cb_in.lookup = "orders_error"
                 THEN [done |-> TRUE, present |-> FALSE, value |-> 0]
                 ELSE [done |-> TRUE, present |-> TRUE,
                       value |-> AssetCostBasis(cb_in.fills, cb_in.quantity,
                                                FallbackPrice(cb_in))]
    /\ UNCHANGED cb_in

InitCost ==
    /\ InitRest
    /\ orders = << >>
    /\ Len(env.coins) = 2
    /\ cb_in \in CostInputs
    /\ cb_out = NoCostOutput
    /\ InitUnits

NextCost ==
    \/ (CalculateOne /\ UNCHANGED << engineVars, ledgerVars, fileVars, trackVars, runVars, entryVars, priceVars, acctVars, unitVars >>)

SpecCost == InitCost /\ [][NextCost]_vars

(***************************************************************************)
(* run: the outer loop.  loop_count only decides the "[LOOP]" log line, so *)
(* it is kept modulo LogEvery.                                             *)
(***************************************************************************)
\* what a tick can raise: an API timeout, the missing holdings payload, malformed data
TickExceptions == {"timeout", "holdings_none", "malformed"}

\* "except Exception as e": where control goes when manage_trades raises exc
Propagate(exc) == "dead"
ExceptHandler(exc) == "caught"

\* loop_count += 1; the log line; manage_trades is entered
StartTick ==
    /\ run.pc = "top"
    /\ run' = [run EXCEPT !.pc = "tick", !.loop_count = (@ + 1) % LogEvery]

\* manage_trades returns (every API call has a timeout, every loop is over a finite list)
TickReturns ==
    /\ run.pc = "tick"
    /\ run' = [run EXCEPT !.pc = "sleep", !.last = "ok"]

\* manage_trades raises
TickRaises ==
    /\ run.pc = "tick"
    /\ \E exc \in TickExceptions :
        run' = [run EXCEPT !.pc = ExceptHandler(exc), !.last = exc]

\* the handler logs the exception and the traceback
LogException ==
    /\ run.pc = "caught"
    /\ run' = [run EXCEPT !.pc = "backoff"]

\* time.sleep(0.5) after a tick, time.sleep(5) after a failed one
SleepOver ==
    /\ run.pc \in {"sleep", "backoff"}
    /\ run' = [run EXCEPT !.pc = "top"]

InitRun == InitLedger

NextRun ==
    \/ (StartTick /\ UNCHANGED << engineVars, ledgerVars, fileVars, trackVars, costVars, entryVars, priceVars, acctVars, unitVars >>)
    \/ (TickReturns /\ UNCHANGED << engineVars, ledgerVars, fileVars, trackVars, costVars, entryVars, priceVars, acctVars, unitVars >>)
    \/ (TickRaises /\ UNCHANGED << engineVars, ledgerVars, fileVars, trackVars, costVars, entryVars, priceVars, acctVars, unitVars >>)
    \/ (LogException /\ UNCHANGED << engineVars, ledgerVars, fileVars, trackVars, costVars, entryVars, priceVars, acctVars, unitVars >>)
    \/ (SleepOver /\ UNCHANGED << engineVars, ledgerVars, fileVars, trackVars, costVars, entryVars, priceVars, acctVars, unitVars >>)

\* the process keeps running: a step of the loop that can be taken is taken
SpecRun == InitRun /\ [][NextRun]_vars /\ WF_vars(NextRun)

(***************************************************************************)
(* The account snapshot of manage_trades and the status write that ends    *)
(* the tick, on any answer of the exchange.                                *)
(***************************************************************************)
HoldingsPayloads == [Symbols -> {0, 1}]

\* "if bp <= 0.0 or sp <= 0.0: snapshot_ok = False"
SnapshotOk(accountOk, hold, prices) ==
    accountOk /\ \A s \in Symbols : hold[s] > 0 => prices[s] # NoQuote

\* total_account_value = buying_power + holdings_sell_value, over the priced holdings
TotalAccountValue(buying_power, hold, prices) ==
    LET value(s) == IF hold[s] > 0 /\ prices[s] # NoQuote THEN hold[s] * prices[s][1] ELSE 0
    IN  buying_power + value("BTC") + value("ETH")

\* "if (not snapshot_ok) or (total_account_value <= 0.0)": fall back to the stored one
NeverFallBack(snapshot_ok, total) == FALSE
FallsBack(snapshot_ok, total) == ~snapshot_ok \/ total <= 0

\* one tick: the fetches, the snapshot, and (unless the tick returns early or raises
\* before it) the status write and the account-value history line
AccountTick ==
    /\ acct.ticks < MaxTicks
    /\ \E accountOk \in BOOLEAN, bp \in BuyingPowers, hOk \in BOOLEAN,
          hold \in HoldingsPayloads, priceOk \in BOOLEAN, q \in QuoteChoices,
          reaches_write \in BOOLEAN :
        LET fetched == [s \in Symbols |-> IF priceOk THEN q[s] ELSE NoQuote]
            prices == GetPrice(last_good_bid_ask, fetched)
            buying_power == IF accountOk THEN bp ELSE 0
            snapshot_ok == SnapshotOk(accountOk, hold, prices)
            computed == TotalAccountValue(buying_power, hold, prices)
            falls_back == FallsBack(snapshot_ok, computed)
            total == IF falls_back /\ acct.last_good # -1 THEN acct.last_good
                     ELSE computed
        IN  /\ accountOk \/ bp = 0
            /\ IF ~hOk
               THEN \* holdings is None: its first use raises, the tick is over
                    /\ hold = [s \in Symbols |-> 0] /\ priceOk /\ accountOk
                    /\ q = [s \in Symbols |-> <<900, 900>>] /\ ~reaches_write
                    /\ acct' = [acct EXCEPT !.written = -1, !.snapshot_ok = FALSE,
                                            !.ticks = @ + 1]
                    /\ UNCHANGED last_good_bid_ask
               ELSE /\ last_good_bid_ask' = prices
                    /\ acct' = [last_good |-> IF falls_back THEN acct.last_good
                                              ELSE computed,
                                written |-> IF reaches_write THEN total ELSE -1,
                                snapshot_ok |-> snapshot_ok,
                                total |-> computed,
                                recent_complete |-> IF snapshot_ok THEN computed
                                                    ELSE acct.recent_complete,
                                recent_positive |-> IF snapshot_ok /\ computed > 0
                                                    THEN computed
                                                    ELSE acct.recent_positive,
                                ticks |-> acct.ticks + 1,
                                restarts |-> acct.restarts]

\* the process is started again: __init__ empties both caches (recent_positive follows
\* the snapshots of the running process, recent_complete those of all runs)
AccountRestart ==
    /\ acct.ticks > 0
    /\ acct.restarts < MaxRestarts
    /\ acct' = [acct EXCEPT !.last_good = -1, !.recent_positive = -1, !.written = -1,
                            !.snapshot_ok = TRUE, !.total = 0, !.restarts = @ + 1]
    /\ last_good_bid_ask' = [s \in Symbols |-> NoQuote]

InitAccount == InitLedger

NextAccount ==
    \/ (AccountTick /\ UNCHANGED << engineVars, ledgerVars, fileVars, trackVars, costVars, runVars, entryVars, unitVars >>)
    \/ (AccountRestart /\ UNCHANGED << engineVars, ledgerVars, fileVars, trackVars, costVars, runVars, entryVars, unitVars >>)

SpecAccount == InitAccount /\ [][NextAccount]_vars

(***************************************************************************)
(* The DCA buys of one tick against the buying power: the snapshot takes   *)
(* the account's buying power (or, on an incomplete snapshot, the stored   *)
(* one), and every holding whose DCA is due is tested against that value.  *)
(***************************************************************************)
FundsBalances == {0, 2000, 4000}
HoldingValues == {900, 1800}
HoldingLists ==
    {<< >>} \cup {<< v >> : v \in HoldingValues}
            \cup {<< v, w >> : v \in HoldingValues, w \in HoldingValues}

RECURSIVE SumSeq(_)
SumSeq(q) == IF q = << >> THEN 0 ELSE Head(q) + SumSeq(Tail(q))

\* manage_trades: buying_power of the account payload (0 and an incomplete snapshot when
\* it cannot be read), the fall-back to the stored snapshot, the store of a complete one
FundsSnapshot ==
    /\ funds.pc = "idle"
    /\ funds.ticks < MaxTicks
    /\ \E actual \in FundsBalances, accountOk \in BOOLEAN, values \in HoldingLists :
        LET buying_power == IF accountOk THEN actual ELSE 0
            total == buying_power + SumSeq(values)
            falls_back == FallsBack(accountOk, total)
        IN  funds' = [funds EXCEPT
                        !.pc = "loop",
                        !.actual = actual,
                        !.buying_power = IF falls_back /\ funds.last_good # -1
                                         THEN funds.last_good ELSE buying_power,
                        !.last_good = IF falls_back THEN @ ELSE buying_power,
                        !.values = values,
                        !.idx = 1,
                        !.placed = << >>,
                        !.accepted = 0]

\* manage_trades: one holding whose DCA is due and which the rate gate lets through:
\* "elif dca_amount <= buying_power" places the buy; the exchange fills an order the
\* balance left covers and refuses any other
FundsDca ==
    /\ funds.pc = "loop"
    /\ funds.idx <= Len(funds.values)
    /\ LET dca_amount == funds.values[funds.idx] * DCA_MULTIPLIER
           ok == funds.accepted + dca_amount <= funds.actual
           outcome == DcaOutcome(TRUE, 0, TRUE, dca_amount, funds.buying_power, ok)
       IN  funds' = [funds EXCEPT
                       !.idx = @ + 1,
                       !.placed = IF outcome \in {"bought", "failed"}
                                  THEN Append(@, dca_amount) ELSE @,
                       !.accepted = IF outcome = "bought" THEN @ + dca_amount ELSE @]

\* manage_trades: the loop over the holdings is over
FundsEnd ==
    /\ funds.pc = "loop"
    /\ funds.idx > Len(funds.values)
    /\ funds' = [funds EXCEPT !.pc = "idle", !.ticks = @ + 1]

InitFunds ==
    /\ InitRest
    /\ orders = << >>
    /\ Len(env.coins) = 2
    /\ cb_in = NoCostInput
    /\ cb_out = NoCostOutput
    /\ InitUnits

NextFunds ==
    \/ (FundsSnapshot /\ UNCHANGED << engineVars, ledgerVars, fileVars, trackVars, costVars, runVars, entryVars, priceVars, acctVars, trig, gui, cmd >>)
    \/ (FundsDca /\ UNCHANGED << engineVars, ledgerVars, fileVars, trackVars, costVars, runVars, entryVars, priceVars, acctVars, trig, gui, cmd >>)
    \/ (FundsEnd /\ UNCHANGED << engineVars, ledgerVars, fileVars, trackVars, costVars, runVars, entryVars, priceVars, acctVars, trig, gui, cmd >>)

SpecFunds == InitFunds /\ [][NextFunds]_vars

(***************************************************************************)
(* The manual command file: the dashboard writes a command, the trader     *)
(* polls the file at the start of every tick.                              *)
(***************************************************************************)
\* what the dashboard may leave in manual_command.json: a buy, a sell, text that is not
\* JSON, JSON that is not an object, an object with an action the trader does not know
CommandKinds == {"buy", "sell", "malformed", "not_dict", "unknown"}
\* how the order of a command ends: accepted, refused, or with an exception
OrderResults == {"accepted", "refused", "raises"}

\* the dashboard writes a command (over an unread one, if there is one)
WriteCommand ==
    /\ cmd.written < MaxCommands
    /\ \E kind \in CommandKinds :
        cmd' = [cmd EXCEPT !.written = @ + 1,
                           !.file = [id |-> cmd.written + 1, kind |-> kind],
                           !.kinds = Append(@, kind),
                           !.runs = Append(@, 0),
                           !.done = Append(@, "none")]

\* the rest of the handler runs although os.remove raised
ReachesOrderAnyway(kind, removed) == kind \in {"buy", "sell"}

\* _poll_manual_command: the order is reached when the file parsed, was removed, and
\* holds a buy or a sell
ReachesOrder(kind, removed) == removed /\ kind \in {"buy", "sell"}

\* _poll_manual_command, whole: read, remove, validate, place the order; an exception
\* anywhere ends in the clean-up, which removes the file if it can
PollCommand ==
    /\ cmd.polls < MaxPolls
    /\ \E removeOk \in BOOLEAN, cleanupOk \in BOOLEAN, result \in OrderResults :
        LET file == cmd.file
            parsed == file.kind # "malformed"
            removed == parsed /\ removeOk
            ordered == ReachesOrder(file.kind, removed)
            raised == ~parsed \/ ~removed \/ (ordered /\ result = "raises")
            after == IF removed \/ (raised /\ cleanupOk) THEN NoFile ELSE file
        IN  /\ (parsed \/ removeOk) /\ (raised \/ cleanupOk)
            /\ (ordered \/ result = "accepted")
            /\ IF file = NoFile
               THEN /\ removeOk /\ cleanupOk /\ result = "accepted"
                    /\ cmd' = [cmd EXCEPT !.polls = @ + 1]
               ELSE cmd' = [cmd EXCEPT
                              !.polls = @ + 1,
                              !.file = after,
                              !.runs[file.id] = IF ordered THEN @ + 1 ELSE @,
                              !.done[file.id] = IF ordered THEN result
                                                ELSE IF raised THEN "raises" ELSE "ignored"]

InitCommand ==
    /\ InitRest
    /\ orders = << >>
    /\ Len(env.coins) = 2
    /\ cb_in = NoCostInput
    /\ cb_out = NoCostOutput
    /\ InitUnits

NextCommand ==
    \/ (WriteCommand /\ UNCHANGED << engineVars, ledgerVars, fileVars, trackVars, costVars, runVars, entryVars, priceVars, acctVars, trig, gui, funds >>)
    \/ (PollCommand /\ UNCHANGED << engineVars, ledgerVars, fileVars, trackVars, costVars, runVars, entryVars, priceVars, acctVars, trig, gui, funds >>)

SpecCommand == InitCommand /\ [][NextCommand]_vars

(***************************************************************************)
(* Properties of the trailing exit.                                        *)
(***************************************************************************)
\* the step places an order with this tag for s
Placed(s, tag) ==
    /\ Len(orders') = Len(orders) + 1
    /\ orders'[Len(orders')].sym = s
    /\ orders'[Len(orders')].tag = tag

\* C1: under constant settings and with no trade on the symbol in between, a trailing
\* exit is attempted for a held symbol on a tick if and only if the previous tick ended
\* with the bid at or above the trailing line and on this tick the bid is below the line
\* as recomputed on this tick.
C1_ExitIffCrossing ==
    \A s \in Symbols :
        (obs[s].evald /\ ~obs[s].fresh /\ ~obs[s].manual /\ prevTick[s] # "none")
        => (obs[s].fired <=>
               (prevTick[s] = "above" /\ obs[s].bid * LineScale < obs[s].line))

\* C2: while a symbol's trailing state stays active its line never decreases from one
\* step to the next, whatever the prices and even if cost basis or DCA stage change.
C2_LineNonDecreasing ==
    [][\A s \in Symbols :
          (trailing_pm[s].active /\ trailing_pm'[s].active)
          => trailing_pm'[s].line >= trailing_pm[s].line]_vars

\* an active trailing state evaluated again after a manual buy changed the cost basis
\* and the stage under it, its line above the new base line
C2_Witness ==
    \E s \in Symbols :
        /\ obs[s].evald /\ ~obs[s].fresh /\ obs[s].manual
        /\ trailing_pm[s].active
        /\ dca_levels_triggered[s] > 0
        /\ trailing_pm[s].line >
              (cost_basis[s] * LineScale * (100 + cfg.pm_start_pct_with_dca)) \div 100

\* C3: at the end of a tick's evaluation of a held symbol, an active trailing line is
\* at least cost basis x (1 + startPct/100), with startPct chosen by the current DCA
\* stage, and at least peak x (1 - gapPct/100).
C3_LineFloors ==
    \A s \in Symbols :
        (obs[s].evald /\ trailing_pm[s].active)
        => /\ trailing_pm[s].line * 100 >=
                 cost_basis[s] * LineScale
                   * (100 + (IF dca_levels_triggered[s] = 0
                             THEN cfg.pm_start_pct_no_dca
                             ELSE cfg.pm_start_pct_with_dca))
           /\ trailing_pm[s].line * 100 >=
                 trailing_pm[s].peak * LineScale * (100 - cfg.trailing_gap_pct)

\* an evaluated active state whose line follows the peak, above the base line
C3_Witness ==
    \E s \in Symbols :
        /\ obs[s].evald /\ trailing_pm[s].active
        /\ trailing_pm[s].line * 100 =
              trailing_pm[s].peak * LineScale * (100 - cfg.trailing_gap_pct)
        /\ trailing_pm[s].line * 100 >
              cost_basis[s] * LineScale * (100 + cfg.pm_start_pct_no_dca)

(***************************************************************************)
(* The DCA trigger of one holding as a function of its inputs: the stage,  *)
(* the ask and the cost basis, the long signal, the configured start level *)
(* and the list of hard thresholds.                                        *)
(***************************************************************************)
Ladders == { << -10 >>, << -10, -20 >>, << -5, -10, -20 >> }
TriggerAsks == {750, 800, 850, 900, 950, 1000, 1100}
TriggerInputs ==
    [stage : 0..MaxStage, ask : TriggerAsks, cb : {1000}, long : 0..7,
     start_level : 1..7, levels : Ladders]

\* manage_trades: the status line's next trigger, then hard_hit, neural_hit and the test
\* "if hard_hit or neural_hit"
DcaTrigger ==
    /\ ~trig.done
    /\ LET hard_level == HardLevelOf(trig.levels, trig.stage)
           hard_hit == HardHitAt(trig.ask, trig.cb, hard_level)
           neural_hit == NeuralHit(trig.ask, trig.cb, trig.stage, trig.long)
       IN  trig' = [trig EXCEPT !.done = TRUE,
                                !.hard_level = hard_level,
                                !.hard_hit = hard_hit,
                                !.neural_hit = neural_hit,
                                !.attempt = (hard_hit \/ neural_hit),
                                !.neural_next = NeuralNext(trig.start_level, trig.stage)]

InitTrigger ==
    /\ InitRest
    /\ orders = << >>
    /\ Len(env.coins) = 2
    /\ cb_in = NoCostInput
    /\ cb_out = NoCostOutput
    /\ \E in \in TriggerInputs :
          trig = [NoTrigger EXCEPT !.stage = in.stage, !.ask = in.ask, !.cb = in.cb,
                                   !.long = in.long, !.start_level = in.start_level,
                                   !.levels = in.levels]
    /\ gui = NoReload
    /\ funds = NoFunds
    /\ cmd = NoCommand

NextTrigger ==
    \/ (DcaTrigger /\ UNCHANGED << engineVars, ledgerVars, fileVars, trackVars, costVars, runVars, entryVars, priceVars, acctVars, gui, funds, cmd >>)

SpecTrigger == InitTrigger /\ [][NextTrigger]_vars

(***************************************************************************)
(* One tunable through a settings reload: _load_gui_settings parses and    *)
(* clamps what gui_settings.json says (an unparsable value falls back to   *)
(* the cached one), _refresh_paths_and_symbols assigns the global.         *)
(***************************************************************************)
Tunables ==
    {"trade_start_level", "start_allocation_pct", "dca_multiplier",
     "max_dca_buys_per_24h", "dca_cooldown_minutes", "pm_start_pct_no_dca",
     "pm_start_pct_with_dca", "trailing_gap_pct"}
RawValues == -1..MaxSetting
ReloadInputs ==
    [key : Tunables, parses : BOOLEAN, raw : RawValues, cached : {0, 2}, prev : {1, 3}]

\* the clamp both functions apply to a tunable
ClampTunable(key, v) ==
    IF key = "trade_start_level" THEN Max(1, Min(v, 7)) ELSE Max(v, 0)

\* _load_gui_settings: the value it returns for a tunable
LoadTunable(key, parses, raw, cached) ==
    ClampTunable(key, IF parses THEN raw ELSE cached)

\* "s.get(key, X) or X": a loaded value that is falsy gives way to the value in force
LoadedOrCurrent(loaded, prev) == IF loaded = 0 THEN prev ELSE loaded

\* _refresh_paths_and_symbols: the global it assigns
RefreshTunable(key, loaded, prev) == ClampTunable(key, LoadedOrCurrent(loaded, prev))

\* a reload of the settings file (its mtime has changed)
ReloadSettings ==
    /\ ~gui.done
    /\ LET loaded == LoadTunable(gui.key, gui.parses, gui.raw, gui.cached)
       IN  gui' = [gui EXCEPT !.done = TRUE,
                              !.loaded = loaded,
                              !.effective = RefreshTunable(gui.key, loaded, gui.prev)]

InitSettings ==
    /\ InitRest
    /\ orders = << >>
    /\ Len(env.coins) = 2
    /\ cb_in = NoCostInput
    /\ cb_out = NoCostOutput
    /\ trig = NoTrigger
    /\ funds = NoFunds
    /\ cmd = NoCommand
    /\ \E in \in ReloadInputs :
          /\ in.parses \/ in.raw = 0
          /\ gui = [NoReload EXCEPT !.key = in.key, !.parses = in.parses, !.raw = in.raw,
                                    !.cached = in.cached, !.prev = in.prev]

NextSettings ==
    \/ (ReloadSettings /\ UNCHANGED << engineVars, ledgerVars, fileVars, trackVars, costVars, runVars, entryVars, priceVars, acctVars, trig, funds, cmd >>)

SpecSettings == InitSettings /\ [][NextSettings]_vars

(***************************************************************************)
(* Properties of the DCA gate and the DCA stage.                           *)
(***************************************************************************)
\* C4: no DCA buy is placed for a symbol when the DCA buys made after its latest sell
\* and within the last window already number maxBuysPerWindow or more.
C4_RateLimit ==
    [][\A s \in Symbols :
          Placed(s, "DCA")
          => Cardinality({i \in 1..Len(orders) :
                            /\ orders[i].sym = s /\ orders[i].tag = "DCA"
                            /\ orders[i].ts >= now - DcaWindow
                            /\ \A j \in i..Len(orders) :
                                  ~(orders[j].sym = s /\ orders[j].side = "sell")})
                < max_dca_buys_per_24h]_vars

\* C5: with a cooldown set, no DCA buy is placed for a symbol less than the cooldown
\* after the previous DCA buy of the same trade; with no cooldown set, the cooldown
\* never blocks a DCA buy.
C5_Cooldown ==
    [][\A s \in Symbols :
          /\ (Placed(s, "DCA") /\ dca_cooldown_minutes > 0)
             => \A i \in 1..Len(orders) :
                   (/\ orders[i].sym = s /\ orders[i].tag = "DCA"
                    /\ \A j \in i..Len(orders) :
                          ~(orders[j].sym = s
                            /\ (orders[j].side = "sell" \/ orders[j].tag = "NONE")))
                   => now - orders[i].ts >= dca_cooldown_minutes
          /\ dca_cooldown_minutes = 0 => obs'[s].dca # "cooldown"]_vars

\* C6: a successful DCA buy leaves the symbol's stage exactly one above the stage it
\* was evaluated at, as seen when the tick is over and the next one starts.
C6_StagePlusOne ==
    [][\A s \in Symbols :
          (pc \in {"holdings", "entry"} /\ pc' = "poll" /\ obs[s].dca = "bought")
          => dca_levels_triggered'[s] = obs[s].stage0 + 1]_vars

\* C7: while a symbol's position stays open (no exit sell, no fresh entry) its DCA
\* stage never decreases, whatever else happens in between.
C7_StageMonotone ==
    [][\A s \in Symbols :
          (/\ holdQty[s] > 0 /\ holdQty'[s] > 0
           /\ pc # "init"
           /\ ~Placed(s, "NONE"))
          => dca_levels_triggered'[s] >= dca_levels_triggered[s]]_vars

C9_CostIsBalanceDecrease ==
    ledgerOp.side = "buy"
    => LET pos == ledgerOp.before.open_positions[ledgerOp.symbol]
           now_pos == pnl_ledger.open_positions[ledgerOp.symbol]
       IN  /\ now_pos.usd_cost =
                 pos.usd_cost
                   + (ledgerOp.buying_power_before - ledgerOp.buying_power_after)
           /\ now_pos.qty = pos.qty + ledgerOp.qty
           /\ pnl_ledger.total_realized_profit_usd =
                 ledgerOp.before.total_realized_profit_usd
           /\ \A s \in Symbols \ {ledgerOp.symbol} :
                 pnl_ledger.open_positions[s] = ledgerOp.before.open_positions[s]

\* C9: a buy adds to the position's cost the decrease of the balance when the balance
\* dropped by a cent or more and the order amount otherwise, whatever the fill price;
\* it adds the bought quantity and leaves the total and every other symbol's position
\* alone.
C9_CostIsSettledDecrease ==
    ledgerOp.side = "buy"
    => LET pos == ledgerOp.before.open_positions[ledgerOp.symbol]
           now_pos == pnl_ledger.open_positions[ledgerOp.symbol]
           decrease == ledgerOp.buying_power_before - ledgerOp.buying_power_after
       IN  /\ now_pos.usd_cost =
                 pos.usd_cost + (IF decrease >= SettleEps THEN decrease
                                 ELSE ledgerOp.amount_in_usd)
           /\ now_pos.qty = pos.qty + ledgerOp.qty
           /\ pnl_ledger.total_realized_profit_usd =
                 ledgerOp.before.total_realized_profit_usd
           /\ \A s \in Symbols \ {ledgerOp.symbol} :
                 pnl_ledger.open_positions[s] = ledgerOp.before.open_positions[s]

\* a buy recorded on an open position before the balance moved, the other symbol's
\* position open
C9_Witness ==
    /\ ledgerOp.side = "buy"
    /\ ledgerOp.before.open_positions[ledgerOp.symbol].open
    /\ ledgerOp.buying_power_before - ledgerOp.buying_power_after < SettleEps
    /\ ledgerOp.qty > 0
    /\ \E s \in Symbols \ {ledgerOp.symbol} : pnl_ledger.open_positions[s].open

\* C10 as stated: after a sell the entry is removed if and only if the quantity left
\* and the cost left are both dust.
C10_RemovedIffBothDust ==
    ledgerOp.side = "sell"
    => LET pos == ledgerOp.before.open_positions[ledgerOp.symbol]
       IN  ~pnl_ledger.open_positions[ledgerOp.symbol].open
           <=> (/\ pos.qty - ledgerOp.qty <= DustQty
                /\ ledgerOp.position_cost_after_usd <= DustCost)

\* C10: after a sell the entry is removed if and only if the quantity left or the
\* cost left is at or below its dust threshold.
C10_RemovedIffEitherDust ==
    ledgerOp.side = "sell"
    => LET pos == ledgerOp.before.open_positions[ledgerOp.symbol]
       IN  ~pnl_ledger.open_positions[ledgerOp.symbol].open
           <=> (\/ pos.qty - ledgerOp.qty <= DustQty
                \/ ledgerOp.position_cost_after_usd <= DustCost)

\* a sell that leaves a quantity above dust at a cost that is dust: the entry is gone
C10_Witness ==
    /\ ledgerOp.side = "sell"
    /\ ledgerOp.before.open_positions[ledgerOp.symbol].open
    /\ ledgerOp.before.open_positions[ledgerOp.symbol].qty - ledgerOp.qty > DustQty
    /\ ~pnl_ledger.open_positions[ledgerOp.symbol].open

\* C11: in every ledger state every symbol either has no open_positions entry or has
\* one whose qty and usd_cost are both positive.
C11_EntryBothPositive ==
    \A s \in Symbols :
        pnl_ledger.open_positions[s].open
        => (pnl_ledger.open_positions[s].qty > 0
            /\ pnl_ledger.open_positions[s].usd_cost > 0)

(***************************************************************************)
(* Properties of the persisted files.                                      *)
(***************************************************************************)
\* C12: at every point, a crash at any step of a write included, the file at the ledger
\* or status path is absent or holds one complete document, which during a write is the
\* one that was there when the write began or the one being written; and no restart or
\* reader has been handed a partial file.
C12_NeverTorn ==
    \A p \in Paths :
        /\ fs[p].present => Complete(fs[p].data)
        /\ (wr.pc \in {"dumping", "written"} /\ wr.path = p)
                => (fs[p] = wr.before \/ fs[p] = [present |-> TRUE, data |-> Doc(wr.data)])
        /\ seen[p].present => Complete(seen[p].data)

\* a crash in the middle of a dump left a partial temporary behind, and the restart read
\* the complete previous ledger
C12_Witness ==
    /\ crashes > 0
    /\ fs["pnl_ledger.json.tmp"].present
    /\ ~Complete(fs["pnl_ledger.json.tmp"].data)
    /\ seen["pnl_ledger.json"].present
    /\ seen["pnl_ledger.json"] = fs["pnl_ledger.json"]
    /\ wr.pc = "idle"

(***************************************************************************)
(* Properties of order attempts the exchange does not accept.              *)
(***************************************************************************)
\* the step evaluates holding s
Evaluates(s) ==
    pc = "holdings" /\ idx <= Len(snap.holdings) /\ snap.holdings[idx] = s

\* the trailing state of s when place_sell_order is called in this step: rebased,
\* activated and ratcheted at this step's bid
TrailBeforeSell(s) ==
    LET base == BasePmLine(cfg, cost_basis[s], dca_levels_triggered[s])
        bid == obs'[s].bid
    IN  TrailRatchet(TrailActivate(TrailRebase(trailing_pm[s], cfg, base), bid),
                     cfg, base, bid)

\* C13: when the exchange does not accept an order (trailing sell, DCA buy or entry buy)
\* the attempt is a no-op: no trade is recorded and the symbol's DCA stage, buy
\* timestamps, sell boundary and trailing state (active, line, peak, was-above) are left
\* as they were immediately before the attempt.
C13_FailedOrderNoOp ==
    [][\A s \in Symbols :
        /\ (Evaluates(s) /\ obs'[s].fired /\ ~obs'[s].sold /\ obs'[s].dca = "hold")
            => /\ orders' = orders
               /\ dca_levels_triggered'[s] = dca_levels_triggered[s]
               /\ dca_buy_ts'[s] = dca_buy_ts[s]
               /\ dca_last_sell_ts'[s] = dca_last_sell_ts[s]
               /\ trailing_pm'[s] = TrailBeforeSell(s)
        /\ (Evaluates(s) /\ ~obs'[s].fired /\ obs'[s].dca = "failed")
            => /\ orders' = orders
               /\ dca_levels_triggered'[s] = dca_levels_triggered[s]
               /\ dca_buy_ts'[s] = DcaWindowPrune(dca_buy_ts[s], dca_last_sell_ts[s], now)
               /\ dca_last_sell_ts'[s] = dca_last_sell_ts[s]
        /\ (pc = "entry" /\ pc' = "entry" /\ faults' = faults + 1
                /\ idx <= Len(crypto_symbols) /\ crypto_symbols[idx] = s)
            => /\ orders' = orders
               /\ dca_levels_triggered'[s] = dca_levels_triggered[s]
               /\ dca_buy_ts'[s] = dca_buy_ts[s]
               /\ dca_last_sell_ts'[s] = dca_last_sell_ts[s]
               /\ trailing_pm'[s] = trailing_pm[s]
      ]_vars

(***************************************************************************)
(* Properties of the per-trade state after an exit.                        *)
(***************************************************************************)
\* the latest trade of s is a trailing exit of a tick that is over
ExitedBy(s, o) ==
    /\ o # << >>
    /\ o[Len(o)].side = "sell"
    /\ o[Len(o)].tag = "TRAIL_SELL"
    /\ ~obs[s].sold
    /\ pc # "init"

\* C14: from the end of the tick of a successful trailing exit of a symbol until its next
\* entry, the symbol has no trailing state, its DCA stage is 0, its list of DCA buy
\* timestamps is empty and its sell boundary is the time of the sell.
C14_ClearedAfterExit ==
    \A s \in Symbols :
        ExitedBy(s, OrdersOf(orders, s))
        => /\ ~trailing_pm[s].exists
           /\ dca_levels_triggered[s] = 0
           /\ dca_buy_ts[s] = << >>
           /\ dca_last_sell_ts[s] = OrdersOf(orders, s)[Len(OrdersOf(orders, s))].ts

(***************************************************************************)
(* Properties of the rate tracker.                                         *)
(***************************************************************************)
\* the buys of a list that are inside the rolling window at time t
InWindow(ts_list, t) == SelectSeq(ts_list, LAMBDA x : x >= t - DcaWindow)

\* C15: after a reset of a symbol, the N buys noted for it since then that are within the
\* rolling window make _dca_window_count return exactly N, until a further buy is noted;
\* right after another reset with sold = True it returns 0.
C15_CountIsBuysSinceReset ==
    \A s \in Symbols :
        counted[s] >= 0 => counted[s] = Len(InWindow(noted[s], now))

\* the count returned 2 for two buys noted after a sell boundary
C15_Witness ==
    \E s \in Symbols :
        /\ dca_last_sell_ts[s] > 0
        /\ Len(noted[s]) = 2
        /\ counted[s] = 2

\* what a process started now would seed for s from the trade log
SeededBuys(s) == SeedDcaBuys(OrdersOf(orders, s), now)
\* what the running process would count for s now
MemoryBuys(s) == DcaWindowPrune(dca_buy_ts[s], dca_last_sell_ts[s], now)

\* C16: between two ticks, the rate tracker seeded from the trade log gives for every
\* symbol the same window count, and the same window and cooldown decisions, as the
\* tracker the running process holds in memory.
C16_SeedEqualsMemory ==
    pc = "poll"
    => \A s \in Symbols :
        /\ Len(SeededBuys(s)) = Len(MemoryBuys(s))
        /\ (Len(SeededBuys(s)) >= max_dca_buys_per_24h)
              = (Len(MemoryBuys(s)) >= max_dca_buys_per_24h)
        /\ CooldownOk(SeededBuys(s), now) = CooldownOk(MemoryBuys(s), now)

(***************************************************************************)
(* Properties of the cost basis.                                           *)
(***************************************************************************)
\* the filled buys of a history, newest first
NewestBuys(fills) == Reverse(SelectSeq(fills, LAMBDA o : o.side = "buy"))

RECURSIVE QtyBefore(_, _)
\* the quantity of the first k buys of a list
QtyBefore(buys, k) == IF k = 0 THEN 0 ELSE buys[k].qty + QtyBefore(buys, k - 1)

\* the part of the i-th newest buy that covers the held quantity
TakenOf(buys, i, held) == Min(buys[i].qty, Max(0, held - QtyBefore(buys, i - 1)))

RECURSIVE TakenCost(_, _, _)
TakenCost(buys, k, held) ==
    IF k = 0 THEN 0
    ELSE TakenOf(buys, k, held) * buys[k].price + TakenCost(buys, k - 1, held)

\* C17: for a held asset and any history of filled buys, the reconstructed cost basis is
\* (the sum of quantity x price over the buys taken newest first until the held quantity
\* is covered, the last one truncated to what remains, plus the unaccounted remainder x
\* the current market price) divided by the held quantity.
C17_LifoPlusRemainderAtMarket ==
    (cb_out.done /\ cb_out.present /\ cb_in.quantity > 0)
    => LET buys == NewestBuys(cb_in.fills)
           covered == Min(cb_in.quantity, QtyBefore(buys, Len(buys)))
           remainder == cb_in.quantity - covered
       IN  cb_out.value
             = (TakenCost(buys, Len(buys), cb_in.quantity) + remainder * cb_in.price)
                  \div cb_in.quantity

(***************************************************************************)
(* Properties of the run loop.                                             *)
(***************************************************************************)
\* C18: the loop never ends because of a failed tick: an exception raised by a tick is
\* caught and, after the backoff, a further tick is started; every tick, failed or not,
\* is eventually over and eventually followed by another tick.
C18_TickFollowsTick ==
    /\ [](run.pc # "dead")
    /\ (run.pc = "tick") ~> (run.pc \in {"sleep", "caught"})
    /\ (run.pc = "caught") ~> (run.pc = "backoff")
    /\ (run.pc \in {"sleep", "backoff"}) ~> (run.pc = "tick")

\* a tick is running that was started after a failed tick and its backoff
C18_Witness ==
    run.pc = "tick" /\ run.last \in TickExceptions

(***************************************************************************)
(* Properties of the entry.                                                *)
(***************************************************************************)
\* C19: an entry buy is placed for a tracked symbol only if, at that moment, the symbol
\* is not held with a positive cost basis, the long signal level read for it is at least
\* the start level and the short signal level read for it is 0.
C19_EntryOnlyIfGate ==
    [][\A s \in Symbols :
        Placed(s, "NONE")
        => /\ s \in Coins
           /\ ~(holdQty[s] > 0 /\ cost_basis[s] > 0)
           /\ entered'.sym = s
           /\ entered'.buy_count >= start_level
           /\ entered'.sell_count = 0
      ]_vars

\* an entry buy has been placed on this tick
C19_Witness ==
    /\ entered.sym \in Symbols
    /\ orders # << >>
    /\ orders[Len(orders)].tag = "NONE"
    /\ orders[Len(orders)].sym = entered.sym
    /\ entered.buy_count >= start_level

(***************************************************************************)
(* Properties of a refused DCA buy.                                        *)
(***************************************************************************)
\* the step evaluates holding s, the DCA trigger fires and the buy is refused
Refused(s) == Evaluates(s) /\ obs'[s].dca \in {"limit", "cooldown", "funds"}

\* what _dca_window_count returns for s in this step
WindowCountOf(s) == Len(DcaWindowPrune(dca_buy_ts[s], dca_last_sell_ts[s], now))

\* the cooldown since the latest DCA buy the tracker holds for s has elapsed
CooldownElapsed(s) ==
    \/ dca_cooldown_minutes = 0
    \/ dca_buy_ts[s] = << >>
    \/ now - MaxSeq(dca_buy_ts[s]) >= dca_cooldown_minutes

\* the trailing state the trailing evaluation of this step leaves for s
TrailAfterEval(s) ==
    LET base == BasePmLine(cfg, cost_basis[s], dca_levels_triggered[s])
        st0 == TrailRebase(trailing_pm[s], cfg, base)
    IN  SaveWasAbove(TrailBeforeSell(s), AboveNow(st0, obs'[s].bid))

\* C20: when a DCA trigger fires and the buy is refused, no order is placed and the
\* symbol's DCA stage, window count, trailing state and the ledger are left as they are;
\* the refusal is reported as window-exhausted exactly when the window count is at or
\* over the maximum, as cooling-down only when the window has room and the cooldown has
\* not elapsed, and as insufficient funds only when both gates pass and the DCA amount
\* exceeds the buying power.
C20_RefusalFrameAndReason ==
    [][\A s \in Symbols :
        Refused(s)
        => /\ orders' = orders
           /\ pnl_ledger' = pnl_ledger
           /\ dca_levels_triggered'[s] = dca_levels_triggered[s]
           /\ Len(DcaWindowPrune(dca_buy_ts'[s], dca_last_sell_ts'[s], now'))
                 = WindowCountOf(s)
           /\ trailing_pm'[s] = TrailAfterEval(s)
           /\ (obs'[s].dca = "limit") = (WindowCountOf(s) >= max_dca_buys_per_24h)
           /\ obs'[s].dca = "cooldown"
                 => (WindowCountOf(s) < max_dca_buys_per_24h /\ ~CooldownElapsed(s))
           /\ obs'[s].dca = "funds"
                 => /\ WindowCountOf(s) < max_dca_buys_per_24h
                    /\ CooldownElapsed(s)
                    /\ snap.qty[s] * obs'[s].bid * DCA_MULTIPLIER > snap.buying_power
      ]_vars

(***************************************************************************)
(* Properties of the prices a tick decides on.                             *)
(***************************************************************************)
\* C21: a trailing-exit sell or a DCA buy is placed for a symbol on a tick only on a
\* bid/ask fetched for that symbol on that same tick; when the price fetch of the tick
\* fails no order is placed for the symbol on that tick.
C21_OrderOnlyOnFreshPrice ==
    [][\A s \in Symbols :
        (Evaluates(s) /\ (Placed(s, "TRAIL_SELL") \/ Placed(s, "DCA")))
        => snap.price_ok
      ]_vars

(***************************************************************************)
(* Properties of the account snapshot.                                     *)
(***************************************************************************)
\* C22: on a tick whose account snapshot is incomplete and before which a complete
\* snapshot was taken, the total account value written to the status and to the
\* account-value history is the value of the most recent complete snapshot; an incomplete
\* snapshot never replaces the stored one.
C22_WritesLastComplete ==
    /\ (acct.written # -1 /\ ~acct.snapshot_ok /\ acct.recent_complete # -1)
            => acct.written = acct.recent_complete
    /\ acct.last_good \in {-1, acct.recent_complete, acct.recent_positive}

\* C22 as it holds: on a tick whose account snapshot is incomplete and before which the
\* running process took a complete snapshot with a positive total, the total account
\* value written to the status and to the account-value history is the value of the most
\* recent such snapshot; the stored snapshot is always the most recent complete snapshot
\* with a positive total of the running process, never an incomplete one.
C22_WritesLastCompletePositive ==
    /\ (acct.written # -1 /\ ~acct.snapshot_ok /\ acct.recent_positive # -1)
            => acct.written = acct.recent_positive
    /\ acct.last_good = acct.recent_positive

\* an incomplete tick wrote the value of an earlier complete snapshot, which differs
\* from what the incomplete snapshot adds up to
C22_Witness ==
    /\ acct.written # -1
    /\ ~acct.snapshot_ok
    /\ acct.recent_positive # -1
    /\ acct.written # acct.total

(***************************************************************************)
(* Properties of the trailing state across a settings change.              *)
(***************************************************************************)
\* the state the holdings loop is left with after building a new one for s at this
\* step's bid: inactive at the base line below it; active from this bid at or above it
RebuiltAt(s) ==
    LET base == BasePmLine(cfg, cost_basis[s], dca_levels_triggered[s])
        bid == obs'[s].bid
        t == trailing_pm'[s]
    IN  IF obs'[s].dca = "bought" THEN t = NoTrail
        ELSE /\ t.exists
             /\ t.settings_sig = SettingsSig(cfg)
             /\ t.line >= base
             /\ IF bid * LineScale < base
                THEN ~t.active /\ ~t.was_above /\ t.peak = 0 /\ t.line = base
                ELSE t.active /\ t.was_above /\ t.peak = bid

C24_ExitNeedsEarlierAbove ==
    [][\A s \in Symbols :
        (Evaluates(s) /\ obs'[s].fired)
            => /\ trailing_pm[s].exists /\ trailing_pm[s].active
               /\ ~obs'[s].fresh
               /\ ~obs[s].evald
               /\ evalAbove[s]]_vars

\* an exit fires for a state that an earlier tick activated
C24_Witness ==
    /\ pc = "holdings"
    /\ obs["BTC"].fired /\ ~obs["BTC"].fresh /\ obs["BTC"].prev_above
    /\ obs["BTC"].bid * LineScale < obs["BTC"].line

(***************************************************************************)
(* Properties of the state a trade leaves for the next tick.               *)
(***************************************************************************)
\* C25: after a successful fresh entry buy for a symbol, that symbol's DCA stage is 0
\* when the next tick starts, whatever earlier buys and sells its order history holds:
\* the step that ends a tick whose latest entry buy was for s leaves the stage of s at 0.
C25_StageZeroAfterEntry ==
    [][\A s \in Symbols :
        /\ (pc = "entry" /\ pc' = "poll" /\ entered.sym = s)
              => dca_levels_triggered'[s] = 0
        /\ (pc = "entry" /\ pc' = "poll" /\ Placed(s, "NONE"))
              => dca_levels_triggered'[s] = 0]_vars

\* an order of the engine (trailing exit, DCA buy or entry) was placed for s on the tick
\* that this step ends
TradedThisTick(s) ==
    \E i \in 1..Len(orders') :
        /\ orders'[i].sym = s
        /\ orders'[i].ts = now
        /\ orders'[i].tag \in {"TRAIL_SELL", "DCA", "NONE"}

\* C26: at the end of every tick in which at least one order was successfully placed
\* (trailing exit, DCA buy or entry) the cost basis is recomputed before the next tick
\* reads it: the step that ends the tick leaves every traded symbol with the cost basis
\* of its order history as it is after the trade.
C26_RecomputedAfterTrade ==
    [][\A s \in Symbols :
        (pc \in {"holdings", "entry"} /\ pc' = "poll" /\ TradedThisTick(s))
            => cost_basis'[s] =
                  CalculateCostBasis(orders', holdQty', HeldSet(holdQty'), NoFallback)[s]]_vars

\* C27: after every successful order that touches a symbol (entry buy, DCA buy,
\* trailing-exit sell, manual buy or manual sell) the trailing state that existed for the
\* symbol before the order is discarded: the step that places the order leaves the
\* symbol without trailing state.
C27_TrailDiscardedByOrder ==
    [][\A s \in Symbols :
        (/\ Len(orders') = Len(orders) + 1
         /\ orders'[Len(orders')].sym = s
         /\ trailing_pm[s].exists)
            => trailing_pm'[s] = NoTrail]_vars

(***************************************************************************)
(* Properties of a cost-basis pass whose lookups fail.                     *)
(***************************************************************************)
\* the pass asks for the price of the asset: its buys do not cover the held quantity
PriceLookedUp ==
    LET buys == NewestBuys(cb_in.fills)
    IN  QtyBefore(buys, Len(buys)) < cb_in.quantity

\* C28: if the order-history lookup or the price lookup for a held symbol fails during a
\* cost-basis reconstruction pass, that symbol has no cost-basis entry in the result of
\* that pass (an entry of 0 counts as none: the tick skips a holding whose cost basis is
\* not positive), so no exit or DCA decision is taken on it.
C28_FailedLookupOmitsEntry ==
    (/\ cb_out.done
     /\ cb_in.quantity > 0
     /\ \/ cb_in.lookup = "orders_error"
        \/ (cb_in.lookup \in {"price_missing", "price_error"} /\ PriceLookedUp))
    => (~cb_out.present \/ cb_out.value = 0)

(***************************************************************************)
(* Properties of the balance change booked for an order.                   *)
(***************************************************************************)
\* C29: whenever the balance change observed after an accepted order is unusable (buy:
\* the balance did not decrease; sell: the balance did not increase) the ledger is
\* updated with an estimate (buy: the order amount; sell: sold quantity x current bid)
\* and never with the raw change, so a buy is never booked with zero cost and a sell
\* never with zero proceeds.
C29_UnusableDeltaEstimated ==
    LET pos == ledgerOp.before.open_positions[ledgerOp.symbol]
        raw == ledgerOp.buying_power_after - ledgerOp.buying_power_before
    IN  /\ (ledgerOp.side = "buy" /\ raw >= 0)
              => /\ ledgerOp.buying_power_delta = -ledgerOp.amount_in_usd
                 /\ ledgerOp.position_cost_after_usd > pos.usd_cost
        /\ (ledgerOp.side = "sell" /\ raw <= 0)
              => /\ ledgerOp.buying_power_delta
                       = (ledgerOp.qty * ledgerOp.price) \div PriceScale
                 /\ ledgerOp.realized_profit_usd + ledgerOp.position_cost_used_usd > 0

(***************************************************************************)
(* Properties of the line of an inactive trailing state.                   *)
(***************************************************************************)
\* C30: at the end of each tick's evaluation of a held symbol, if its trailing state is
\* not active its line equals cost basis x (1 + startPct/100), where startPct is the
\* no-DCA percentage exactly when the symbol's DCA stage count is 0 and the with-DCA
\* percentage otherwise.
C30_InactiveLineIsBase ==
    [][\A s \in Symbols :
        (Evaluates(s) /\ obs'[s].evald /\ trailing_pm'[s].exists /\ ~trailing_pm'[s].active)
            => trailing_pm'[s].line =
                  (cost_basis'[s] * LineScale
                     * (100 + (IF dca_levels_triggered'[s] = 0
                               THEN cfg'.pm_start_pct_no_dca
                               ELSE cfg'.pm_start_pct_with_dca))) \div 100]_vars

\* an inactive state evaluated after a DCA buy, its line at the with-DCA base line
C30_Witness ==
    /\ pc = "holdings"
    /\ obs["BTC"].evald
    /\ trailing_pm["BTC"].exists /\ ~trailing_pm["BTC"].active
    /\ dca_levels_triggered["BTC"] > 0
    /\ trailing_pm["BTC"].line =
          (cost_basis["BTC"] * LineScale * (100 + cfg.pm_start_pct_with_dca)) \div 100

(***************************************************************************)
(* Properties of the DCA trigger.                                          *)
(***************************************************************************)
\* C31: for every DCA stage s the hard threshold used is ladder[s] when s is below the
\* length of the ladder and the last element of the ladder otherwise; the hard condition
\* holds iff the buy-side P&L percent is at or below that threshold, and a DCA attempt
\* is triggered iff the hard condition or the signal condition holds.
C31_HardThresholdAndTrigger ==
    trig.done
    => LET n == Len(trig.levels)
           threshold == IF trig.stage < n THEN trig.levels[trig.stage + 1]
                        ELSE trig.levels[n]
       IN  /\ n > 0
           /\ trig.hard_level = threshold
           /\ trig.hard_hit <=> ((trig.ask - trig.cb) * 100 <= threshold * trig.cb)
           /\ trig.attempt <=> (trig.hard_hit \/ trig.neural_hit)

\* a stage past the end of the ladder, triggered by the last threshold alone
C31_Witness ==
    /\ trig.done
    /\ trig.stage > Len(trig.levels)
    /\ trig.attempt /\ trig.hard_hit /\ ~trig.neural_hit
    /\ trig.hard_level = -20

\* C32: the external-signal DCA condition is applied exactly for the stages
\* s < 7 - startLevel and requires a long signal level >= startLevel + 1 + s together
\* with a negative buy-side P&L, for every configured startLevel in 1..7; the level
\* displayed as the next DCA trigger of a stage is the level that triggers the buy.
C32_SignalConditionByStartLevel ==
    trig.done
    => LET applies == trig.stage < 7 - trig.start_level
           needed == trig.start_level + 1 + trig.stage
       IN  /\ trig.neural_hit
                 <=> (applies /\ trig.long >= needed /\ trig.ask < trig.cb)
           /\ applies <=> trig.neural_next # 0
           /\ applies => trig.neural_next = needed

(***************************************************************************)
(* Properties of the order of exit and escalation within a tick.           *)
(***************************************************************************)
\* C33: within a tick the trailing exit of a held symbol is evaluated before its DCA
\* escalation, and when the exit sell succeeds no DCA condition is evaluated and no DCA
\* buy is placed for the symbol in that tick: the evaluation that sells places the sell
\* and nothing else and leaves the DCA stage and the DCA window alone, and no symbol has
\* a trailing-exit sell and a DCA buy of the same tick in its order history.
C33_ExitBeforeEscalation ==
    /\ [][\A s \in Symbols :
            (Evaluates(s) /\ obs'[s].sold)
                => /\ obs'[s].dca = "none"
                   /\ Placed(s, "TRAIL_SELL")
                   /\ dca_levels_triggered'[s] = dca_levels_triggered[s]]_vars
    /\ [](\A i, j \in 1..Len(orders) :
            (orders[i].tag = "TRAIL_SELL" /\ orders[j].tag = "DCA"
                /\ orders[i].sym = orders[j].sym)
            => orders[i].ts # orders[j].ts)

\* a holding is sold at a bid that is also at or below its hard DCA threshold
C33_Witness ==
    /\ pc = "holdings"
    /\ obs["BTC"].sold
    /\ (obs["BTC"].bid - cost_basis["BTC"]) * 100 <= -10 * cost_basis["BTC"]
    /\ snap.buying_power > 0

(***************************************************************************)
(* Properties of the reset of the rate tracker.                            *)
(***************************************************************************)
\* C34: _reset_dca_window_for_trade(sym, sold = False) empties sym's DCA buy list and
\* leaves sym's last-sell boundary unchanged; with sold = True at time t it sets sym's
\* boundary to t and empties sym's buy list; in both cases every other symbol's buy list
\* and boundary are unchanged.
C34_ResetFrame ==
    [][\A s \in Symbols :
        reset_call'.sym = s
        => /\ dca_buy_ts'[s] = << >>
           /\ dca_last_sell_ts'[s] =
                 IF reset_call'.sold THEN reset_call'.t ELSE dca_last_sell_ts[s]
           /\ \A x \in Symbols \ {s} :
                 /\ dca_buy_ts'[x] = dca_buy_ts[x]
                 /\ dca_last_sell_ts'[x] = dca_last_sell_ts[x]]_vars

\* a reset for a fresh entry, after an earlier sell of the symbol, while the other
\* symbol has a buy in its list
C34_Witness ==
    /\ reset_call.sym = "BTC" /\ ~reset_call.sold
    /\ dca_last_sell_ts["BTC"] > 0
    /\ dca_last_sell_ts["BTC"] < now
    /\ dca_buy_ts["ETH"] # << >>

(***************************************************************************)
(* Properties of a settings reload.                                        *)
(***************************************************************************)
\* C35: after a settings reload each effective tunable equals the validated and clamped
\* value read from the settings (the start level within 1..7, every other tunable at
\* least 0), the value zero included: a configured 0 takes effect as 0 rather than
\* keeping the previous value.
C35_EffectiveIsValidated ==
    gui.done
    => LET read == IF gui.parses THEN gui.raw ELSE gui.cached
           validated == IF gui.key = "trade_start_level"
                        THEN (IF read < 1 THEN 1 ELSE IF read > 7 THEN 7 ELSE read)
                        ELSE (IF read < 0 THEN 0 ELSE read)
       IN  gui.effective = validated

(***************************************************************************)
(* Properties of a trade as a whole.                                       *)
(***************************************************************************)
\* the trade log holds an entry buy of s that no sell of s follows, and s is still held
OpenEntry(s) ==
    /\ holdQty[s] > 0
    /\ \E i \in 1..Len(orders) :
          /\ orders[i].sym = s /\ orders[i].side = "buy" /\ orders[i].tag = "NONE"
          /\ \A j \in (i + 1)..Len(orders) :
                ~(orders[j].sym = s /\ orders[j].side = "sell")

\* C36: while a symbol remains held after a successful entry buy, no further entry buy
\* is placed for it until it has been sold (at most one entry buy per trade), also when
\* the cost-basis or order-history lookup for the symbol fails or the end-of-tick
\* recomputation is skipped.
C36_OneEntryPerTrade ==
    [][\A s \in Symbols : Placed(s, "NONE") => ~OpenEntry(s)]_vars

\* C37: within one tick, the total USD amount of the DCA buy orders placed across all
\* held symbols never exceeds the buying power actually available at the start of that
\* tick.
C37_DcaWithinBuyingPower ==
    SumSeq(funds.placed) <= funds.actual

\* C38: a fired trailing exit is not lost: when the exit fired for a symbol and the sell
\* order was not accepted, the exit sell is attempted again on the next tick on which
\* the bid is still below the trailing line (same trailing state, no trade in between),
\* without the price first having to rise back to the line.
C38_FailedExitRetried ==
    \A s \in Symbols :
        (obs[s].evald /\ ~obs[s].fresh /\ ~obs[s].manual /\ prevFired[s]
            /\ obs[s].bid * LineScale < obs[s].line)
        => obs[s].fired

C40_CommandAtMostOnce ==
    /\ [](\A i \in 1..cmd.written :
            /\ cmd.runs[i] <= 1
            /\ cmd.kinds[i] = "malformed" => cmd.runs[i] = 0)
    /\ [][\A i \in 1..cmd.written :
            cmd'.runs[i] > cmd.runs[i] => cmd'.file.id # i]_vars

\* a command whose order was refused or raised, polled again on a later tick with
\* another command written after it
C40_Witness ==
    /\ cmd.written = 2
    /\ cmd.runs[1] = 1
    /\ cmd.done[1] \in {"refused", "raises"}
    /\ cmd.runs[2] = 1
    /\ cmd.polls >= 3

====
